---------------------------- MODULE Spec2Model ----------------------------
(***************************************************************************)
(* The Blocks pipeline: the single-pass bytecode compiler (compiler.ts)    *)
(* and the stack VM (vm.ts), driven through VM.step and VM.run.            *)
(*                                                                         *)
(* Conventions.  Code addresses, pool indices and slot indices are 0-based *)
(* as in the source; TLA+ sequences are 1-based, so At(s, i) reads s[i+1]. *)
(* A JavaScript string is the sequence of its characters.                  *)
(***************************************************************************)
EXTENDS Integers, Sequences, FiniteSets, TLC

\* ------------------------------------------------------------------ bounds
\* Largest iteration count N of the recursive programs of the catalogue.
MaxN == 3
\* Capacity of the operand stack.  The source allocates 4096 slots
\* (vm.ts, STACK_SIZE); the model runs the same code on a smaller stack so
\* that overflow is reachable.
STACK_SIZE == 8

\* ----------------------------------------------------------------- opcodes
PUSH_CONST == 0
LOAD_LOCAL == 1
STORE_LOCAL == 2
LOAD_GLOBAL == 3
STORE_GLOBAL == 4
LOAD_UPVALUE == 5
STORE_UPVALUE == 6
BINARY_OP == 7
JUMP == 8
JUMP_IF_F == 9
MAKE_BLOCK == 10
CALL == 11
TAIL_CALL == 12
RETURN == 13
HALT == 14
POP == 15
CALL_IF_CLOSURE == 16
TAIL_CALL_IF_CLOSURE == 17

\* ----------------------------------------------------------------- helpers
At(s, i) == s[i + 1]

Max(a, b) == IF a >= b THEN a ELSE b

Min(a, b) == IF a <= b THEN a ELSE b

\* s with 0-based position i set to v; positions between the old end and i
\* are filled with hole (a JavaScript array grows on an out-of-range write).
SetAt(s, i, v, hole) ==
    [k \in 1..Max(Len(s), i + 1) |->
        IF k = i + 1 THEN v ELSE IF k <= Len(s) THEN s[k] ELSE hole]

\* Array.prototype.indexOf: the 0-based position of the first element equal
\* to v, or -1.
IndexOf(s, v) ==
    IF \E k \in 1..Len(s) : s[k] = v
    THEN (CHOOSE k \in 1..Len(s) : s[k] = v /\ \A j \in 1..(k - 1) : s[j] # v) - 1
    ELSE -1

\* The 0-based position of the last element of s equal to v, or -1 (the
\* backward scans of resolveVar and resolveSetVar).
LastIndexOf(s, v) ==
    IF \E k \in 1..Len(s) : s[k] = v
    THEN (CHOOSE k \in 1..Len(s) : s[k] = v /\ \A j \in (k + 1)..Len(s) : s[j] # v) - 1
    ELSE -1

\* ------------------------------------------------------------------ values
\* EvalResult = number | string | Closure | Function | null, plus the
\* JavaScript undefined that array holes and out-of-range reads produce and
\* the non-finite numbers that a division can produce.
IntV(n) == [t |-> "Int", n |-> n]

StrV(s) == [t |-> "Str", s |-> s]

NilV == [t |-> "Nil"]

UndefV == [t |-> "Undefined"]

\* which is "Infinity", "-Infinity" or "NaN"
NonFiniteV(which) == [t |-> "NonFinite", which |-> which]

NativeV(name) == [t |-> "Native", name |-> name]

\* id stands for the identity of the closure object (=== compares closures
\* by reference); env is the index of the captured RuntimeEnv in the heap.
ClosureV(id, params, entryAddr, localsCount, env) ==
    [t |-> "Closure", id |-> id, params |-> params, entryAddr |-> entryAddr,
     localsCount |-> localsCount, env |-> env]

\* typeof v === 'number'
IsNumber(v) == v.t \in {"Int", "NonFinite"}

\* -------------------------------------------------------------- AST nodes
IntNode(value, line) == [type |-> "Int", value |-> value, line |-> line]

StrNode(value, line) == [type |-> "Str", value |-> value, line |-> line]

VarNode(name, line) == [type |-> "Var", name |-> name, line |-> line]

AssignNode(name, expr, line) ==
    [type |-> "Assign", name |-> name, expr |-> expr, line |-> line]

BlockNode(params, body, line) ==
    [type |-> "Block", params |-> params, body |-> body, line |-> line]

CallNode(block, args, line) ==
    [type |-> "Call", block |-> block, args |-> args, line |-> line]

BinOpNode(op, left, right, line) ==
    [type |-> "BinOp", op |-> op, left |-> left, right |-> right, line |-> line]

IfNode(condition, thenBranch, elseBranch, line) ==
    [type |-> "If", condition |-> condition, thenBranch |-> thenBranch,
     elseBranch |-> elseBranch, line |-> line]

\* ---------------------------------------------------------------- compiler
\* Pool entries: a number, a string, or a parameter-name array.
PoolNum(n) == [k |-> "number", n |-> n]

PoolStr(s) == [k |-> "string", s |-> s]

PoolArr(a) == [k |-> "object", a |-> a]

\* Compiler.reset: the fields of a fresh compiler; the root scope has no
\* locals.
reset ==
    [buffer |-> <<>>, pool |-> <<>>, sourceMap |-> <<>>,
     scopes |-> << <<>> >>, currentLine |-> 0]

\* Compiler.addLiteral: <<compiler', index>>.
addLiteral(c, value) ==
    LET existing == IndexOf(c.pool, value) IN
    IF existing # -1 /\ value.k # "object"
    THEN <<c, existing>>
    ELSE <<[c EXCEPT !.pool = Append(@, value)], Len(c.pool)>>

\* Compiler.emit: the opcode and its operands, each slot mapped to
\* currentLine.
emit(c, op, args) ==
    [c EXCEPT !.buffer = @ \o <<op>> \o args,
              !.sourceMap = @ \o [k \in 1..(1 + Len(args)) |-> c.currentLine]]

\* A target for the jump over a block that is its RETURN.
BlockEndAtReturn(c) == Len(c.buffer) - 1

\* this.buffer.length once the body and its RETURN are emitted: the address
\* of the MAKE_BLOCK, where the jump over the block lands.
BlockEnd(c) == Len(c.buffer)

\* A patch that leaves the placeholder in the code.
patchNothing(c, addr, value) == c

\* Compiler.patch: the first operand of the instruction at addr.
patch(c, addr, value) == [c EXCEPT !.buffer[addr + 2] = value]

\* The innermost outer scope (index below Len(scopes)) that holds name, or 0.
OuterScopeOf(scopes, name) ==
    LET hits == {i \in 1..(Len(scopes) - 1) : LastIndexOf(scopes[i], name) # -1} IN
    IF hits = {} THEN 0 ELSE CHOOSE i \in hits : \A j \in hits : j <= i

\* A count of parent links that is one too many.
HopsOneMore(c, o) == Len(c.scopes) - o + 1

\* (this.scopes.length - 1) - i (part_001:176, 199): the parent links from
\* the current scope to scope o (o is the 1-based position of scopes[i]).
Hops(c, o) == Len(c.scopes) - o

\* Compiler.resolveVar: [c, op, args].
resolveVar(c, name) ==
    LET currentScope == c.scopes[Len(c.scopes)]
        i == LastIndexOf(currentScope, name)
        o == OuterScopeOf(c.scopes, name)
    IN  IF i # -1
        THEN [c |-> c, op |-> LOAD_LOCAL, args |-> <<i>>]
        ELSE IF o # 0
        THEN [c |-> c, op |-> LOAD_UPVALUE,
              args |-> <<LastIndexOf(c.scopes[o], name), Hops(c, o)>>]
        ELSE LET lit == addLiteral(c, PoolStr(name)) IN
             [c |-> lit[1], op |-> LOAD_GLOBAL, args |-> <<lit[2]>>]

\* A test of the scope depth that every scope passes.
AtGlobalScopeAlways(c) == TRUE

\* this.scopes.length === 1 (part_001:205): the store is compiled at top
\* level.
AtGlobalScope(c) == Len(c.scopes) = 1

\* Compiler.resolveSetVar: [c, op, args]; inside a block an unknown name is
\* declared as a new local of the innermost scope.
resolveSetVar(c, name) ==
    LET currentScope == c.scopes[Len(c.scopes)]
        i == LastIndexOf(currentScope, name)
        o == OuterScopeOf(c.scopes, name)
    IN  IF i # -1
        THEN [c |-> c, op |-> STORE_LOCAL, args |-> <<i>>]
        ELSE IF o # 0
        THEN [c |-> c, op |-> STORE_UPVALUE,
              args |-> <<LastIndexOf(c.scopes[o], name), Hops(c, o)>>]
        ELSE IF AtGlobalScope(c)
        THEN LET lit == addLiteral(c, PoolStr(name)) IN
             [c |-> lit[1], op |-> STORE_GLOBAL, args |-> <<lit[2]>>]
        ELSE [c |-> [c EXCEPT !.scopes[Len(c.scopes)] = Append(@, name)],
              op |-> STORE_LOCAL, args |-> <<Len(currentScope)>>]

\* The emission of a resolved load or store.
EmitResolved(r) == emit(r.c, r.op, r.args)

\* TRUE of every compiler state.  TLC evaluates a LET definition only when
\* its value is needed; testing Done(c) makes it compute c at that point,
\* so that a sequence of emissions is evaluated in program order.
Done(c) == Len(c.buffer) >= 0

\* A test of the right-hand side that no assignment passes.
PreDeclaresNever(node) == FALSE

\* node.expr.type === 'Block' (part_001:239): the assignment resolves its
\* target before it compiles its right-hand side.
PreDeclares(node) == node.expr.type = "Block"

RECURSIVE emitNode(_, _, _)
RECURSIVE EmitBody(_, _, _)
RECURSIVE EmitArgs(_, _, _)

\* Compiler.emitNode.
emitNode(c0, node, isTail) ==
    LET c == [c0 EXCEPT !.currentLine = node.line]
        atLine(cc) == [cc EXCEPT !.currentLine = node.line]
    IN
    CASE node.type = "Int" ->
           LET lit == addLiteral(c, PoolNum(node.value)) IN
           emit(lit[1], PUSH_CONST, <<lit[2]>>)
      [] node.type = "Str" ->
           LET lit == addLiteral(c, PoolStr(node.value)) IN
           emit(lit[1], PUSH_CONST, <<lit[2]>>)
      [] node.type = "Var" -> EmitResolved(resolveVar(c, node.name))
      [] node.type = "Assign" ->
           IF PreDeclares(node)
           THEN LET r == resolveSetVar(c, node.name)
                    c1 == atLine(emitNode(r.c, node.expr, FALSE))
                IN  IF Done(c1) THEN emit(c1, r.op, r.args) ELSE c1
           ELSE LET c1 == atLine(emitNode(c, node.expr, FALSE))
                IN  IF Done(c1) THEN EmitResolved(resolveSetVar(c1, node.name)) ELSE c1
      [] node.type = "BinOp" ->
           LET c1 == emitNode(c, node.left, FALSE)
               c2 == atLine(emitNode(c1, node.right, FALSE))
               lit == addLiteral(c2, PoolStr(node.op))
           IN  IF Done(c1) /\ Done(c2) THEN emit(lit[1], BINARY_OP, <<lit[2]>>) ELSE c2
      [] node.type = "If" ->
           LET callOp == IF isTail THEN TAIL_CALL_IF_CLOSURE ELSE CALL_IF_CLOSURE
               c1 == atLine(emitNode(c, node.condition, FALSE))
               jumpIfFalseAddr == Len(c1.buffer)
               c2 == emit(c1, JUMP_IF_F, <<0>>)
               c3 == atLine(emitNode(c2, node.thenBranch, FALSE))
               c4 == emit(c3, callOp, <<>>)
               jumpToEndAddr == Len(c4.buffer)
               c5 == emit(c4, JUMP, <<0>>)
               c6 == patch(c5, jumpIfFalseAddr, Len(c5.buffer))
               c7 == atLine(emitNode(c6, node.elseBranch, FALSE))
               c8 == emit(c7, callOp, <<>>)
           IN  IF Done(c1) /\ Done(c3) /\ Done(c6) /\ Done(c7)
               THEN patch(c8, jumpToEndAddr, Len(c8.buffer))
               ELSE c8
      [] node.type = "Block" ->
           LET jumpOverBlock == Len(c.buffer)
               c1 == emit(c, JUMP, <<0>>)
               entryPoint == Len(c1.buffer)
               c2 == [c1 EXCEPT !.scopes = Append(@, node.params)]
               c3 == EmitBody(c2, node.body, 1)
               c4 == emit(c3, RETURN, <<>>)
               localsCount == Len(c4.scopes[Len(c4.scopes)])
               c5 == [c4 EXCEPT !.scopes = SubSeq(@, 1, Len(@) - 1)]
               c6 == atLine(patch(c5, jumpOverBlock, BlockEnd(c5)))
               lit == addLiteral(c6, PoolArr(node.params))
           IN  IF Done(c2) /\ Done(c3)
               THEN emit(lit[1], MAKE_BLOCK, <<lit[2], entryPoint, localsCount>>)
               ELSE c3
      [] node.type = "Call" ->
           LET c1 == emitNode(c, node.block, FALSE)
               c2 == atLine(EmitArgs(c1, node.args, 1))
           IN  IF Done(c1) /\ Done(c2)
               THEN emit(c2, IF isTail THEN TAIL_CALL ELSE CALL, <<Len(node.args)>>)
               ELSE c2

\* node.body.forEach of the Block case: the body expressions from position
\* idx on, a POP after each but the last, the last one in tail position.
EmitBody(c, body, idx) ==
    IF idx > Len(body) THEN c
    ELSE LET isLast == idx = Len(body)
             c1 == emitNode(c, body[idx], isLast)
             c2 == IF isLast THEN c1 ELSE emit(c1, POP, <<>>)
         IN  IF Done(c2) THEN EmitBody(c2, body, idx + 1) ELSE c2

RECURSIVE EmitArgsReversed(_, _, _)
\* An argument loop that compiles the last argument first.
EmitArgsReversed(c, args, idx) ==
    IF idx > Len(args) THEN c
    ELSE LET c1 == emitNode(c, args[Len(args) - idx + 1], FALSE)
         IN  IF Done(c1) THEN EmitArgsReversed(c1, args, idx + 1) ELSE c1

\* The argument loop of the Call case.
EmitArgs(c, args, idx) ==
    IF idx > Len(args) THEN c
    ELSE LET c1 == emitNode(c, args[idx], FALSE)
         IN  IF Done(c1) THEN EmitArgs(c1, args, idx + 1) ELSE c1

RECURSIVE EmitTopAsTail(_, _, _)
\* A statement loop that compiles every statement as the last of a body.
EmitTopAsTail(c, nodes, idx) ==
    IF idx > Len(nodes) THEN c
    ELSE LET c1 == emitNode(c, nodes[idx], TRUE)
             c2 == IF idx < Len(nodes) THEN emit(c1, POP, <<>>) ELSE c1
         IN  IF Done(c2) THEN EmitTopAsTail(c2, nodes, idx + 1) ELSE c2

RECURSIVE EmitTop(_, _, _)
\* nodes.forEach of Compiler.compile: a POP between statements.
EmitTop(c, nodes, idx) ==
    IF idx > Len(nodes) THEN c
    ELSE LET c1 == emitNode(c, nodes[idx], FALSE)
             c2 == IF idx < Len(nodes) THEN emit(c1, POP, <<>>) ELSE c1
         IN  IF Done(c2) THEN EmitTop(c2, nodes, idx + 1) ELSE c2

\* Compiler.compile: the Program {code, pool, sourceMap}.
compile(nodes) ==
    LET c == emit(EmitTop(reset, nodes, 1), HALT, <<>>) IN
    [code |-> c.buffer, pool |-> c.pool, sourceMap |-> c.sourceMap]

\* ------------------------------------------------- JavaScript conversions
Digits == <<"0", "1", "2", "3", "4", "5", "6", "7", "8", "9">>

RECURSIVE NatToStr(_)
\* The decimal digits of a natural number.
NatToStr(n) ==
    IF n < 10 THEN <<Digits[n + 1]>>
    ELSE NatToStr(n \div 10) \o <<Digits[(n % 10) + 1]>>

\* String(n) of an integer.
IntToStr(n) == IF n < 0 THEN <<"-">> \o NatToStr(0 - n) ELSE NatToStr(n)

Chars_null == <<"n", "u", "l", "l">>

Chars_undefined == <<"u", "n", "d", "e", "f", "i", "n", "e", "d">>

Chars_NaN == <<"N", "a", "N">>

Chars_Infinity == <<"I", "n", "f", "i", "n", "i", "t", "y">>

NonFiniteToStr(which) ==
    CASE which = "NaN" -> Chars_NaN
      [] which = "Infinity" -> Chars_Infinity
      [] which = "-Infinity" -> <<"-">> \o Chars_Infinity

RECURSIVE Join(_, _)
\* Array.prototype.join of a sequence of strings.
Join(parts, sep) ==
    IF Len(parts) = 0 THEN <<>>
    ELSE IF Len(parts) = 1 THEN parts[1]
    ELSE parts[1] \o sep \o Join(Tail(parts), sep)

\* String(v).  The text of a host function is its source code, which the
\* model keeps as one opaque character.
ToStr(v) ==
    CASE v.t = "Int" -> IntToStr(v.n)
      [] v.t = "Str" -> v.s
      [] v.t = "Nil" -> Chars_null
      [] v.t = "Undefined" -> Chars_undefined
      [] v.t = "NonFinite" -> NonFiniteToStr(v.which)
      [] v.t = "Closure" ->
           <<"[", "o", "b", "j", "e", "c", "t", " ", "O", "b", "j", "e", "c", "t", "]">>
      [] v.t = "Native" -> <<"<source of a host function>">>

\* The rendering of one argument by print (interpreter.ts:227-231).
PrintArg(a) ==
    CASE a.t = "Closure" ->
           <<"<", "c", "l", "o", "s", "u", "r", "e", " ", "p", "a", "r", "a", "m", "s", "=">>
           \o Join(a.params, <<",">>) \o <<">">>
      [] a.t = "Native" -> <<"<", "n", "a", "t", "i", "v", "e", ">">>
      [] OTHER -> ToStr(a)

IsDigit(ch) == \E d \in 1..10 : Digits[d] = ch

DigitVal(ch) == (CHOOSE d \in 1..10 : Digits[d] = ch) - 1

IsSpace(ch) == ch \in {" ", "\t", "\n", "\r"}

RECURSIVE SkipSpaces(_)
SkipSpaces(s) == IF Len(s) > 0 /\ IsSpace(s[1]) THEN SkipSpaces(Tail(s)) ELSE s

RECURSIVE ParseDigits(_, _)
\* The value of the leading digits of s, or acc when there are none left.
ParseDigits(s, acc) ==
    IF Len(s) > 0 /\ IsDigit(s[1])
    THEN ParseDigits(Tail(s), 10 * acc + DigitVal(s[1]))
    ELSE acc

\* parseInt(s, 10) || 0 on the characters of s: leading white space, an
\* optional sign, then digits; 0 when no digit follows (NaN || 0).
ParseIntOr0(s0) ==
    LET s == SkipSpaces(s0)
        signed == Len(s) > 0 /\ s[1] \in {"-", "+"}
        body == IF signed THEN Tail(s) ELSE s
    IN  IF Len(body) = 0 \/ ~IsDigit(body[1]) THEN 0
        ELSE IF signed /\ s[1] = "-" THEN 0 - ParseDigits(body, 0)
        ELSE ParseDigits(body, 0)

\* ---------------------------------------------------- JavaScript numbers
\* The model's numbers are the integers and Infinity, -Infinity, NaN (a
\* division by zero produces them).  It does not tell -0 from 0.
Inf == NonFiniteV("Infinity")

NegInf == NonFiniteV("-Infinity")

NaN == NonFiniteV("NaN")

\* -1, 0, 1 for the sign of a number that is not NaN.
Sign(a) ==
    IF a.t = "Int" THEN (IF a.n > 0 THEN 1 ELSE IF a.n < 0 THEN -1 ELSE 0)
    ELSE IF a = Inf THEN 1 ELSE -1

Signed(sg) == IF sg > 0 THEN Inf ELSE IF sg < 0 THEN NegInf ELSE NaN

Neg(a) ==
    IF a.t = "Int" THEN IntV(0 - a.n)
    ELSE IF a = Inf THEN NegInf ELSE IF a = NegInf THEN Inf ELSE NaN

\* a + b
NumAdd(a, b) ==
    IF a = NaN \/ b = NaN THEN NaN
    ELSE IF a.t = "Int" /\ b.t = "Int" THEN IntV(a.n + b.n)
    ELSE IF a.t = "Int" THEN b
    ELSE IF b.t = "Int" THEN a
    ELSE IF a = b THEN a ELSE NaN

\* a * b
NumMul(a, b) ==
    IF a = NaN \/ b = NaN THEN NaN
    ELSE IF a.t = "Int" /\ b.t = "Int" THEN IntV(a.n * b.n)
    ELSE Signed(Sign(a) * Sign(b))

\* The quotient rounded toward zero.
TruncDiv(x, y) ==
    LET ax == IF x < 0 THEN 0 - x ELSE x
        ay == IF y < 0 THEN 0 - y ELSE y
    IN  IF (x < 0) = (y < 0) THEN ax \div ay ELSE 0 - (ax \div ay)

\* floor(x / y) for integers, y # 0.
FloorDiv(x, y) ==
    IF y > 0 THEN x \div y ELSE (0 - x) \div (0 - y)

\* The remainder x % y of JavaScript for integers, y # 0: it has the sign
\* of the dividend.
TruncRem(x, y) ==
    LET ax == IF x < 0 THEN 0 - x ELSE x
        ay == IF y < 0 THEN 0 - y ELSE y
    IN  IF x < 0 THEN 0 - (ax % ay) ELSE ax % ay

\* Math.floor(a / b): a zero divisor gives Infinity, -Infinity or NaN.
NumFloorDiv(a, b) ==
    IF a = NaN \/ b = NaN THEN NaN
    ELSE IF a.t = "Int" /\ b.t = "Int"
    THEN (IF b.n = 0 THEN Signed(Sign(a)) ELSE IntV(FloorDiv(a.n, b.n)))
    ELSE IF a.t = "Int" THEN IntV(0)
    ELSE IF b.t = "Int" THEN Signed(Sign(a) * (IF b.n < 0 THEN -1 ELSE 1))
    ELSE NaN

\* a < b
NumLess(a, b) ==
    IF a = NaN \/ b = NaN THEN FALSE
    ELSE IF a.t = "Int" /\ b.t = "Int" THEN a.n < b.n
    ELSE IF a = b THEN FALSE
    ELSE a = NegInf \/ b = Inf

\* a === b
StrictEq(a, b) == a = b /\ a # NaN

\* a % b on two numbers, b # 0.
NumRem(a, b) ==
    IF a.t = "Int" /\ b.t = "Int" THEN IntV(TruncRem(a.n, b.n))
    ELSE IF a.t = "Int" /\ b # NaN THEN a
    ELSE NaN

Bool01(p) == IntV(IF p THEN 1 ELSE 0)

\* String.prototype.slice(from, to) with 0-based offsets already clamped to
\* 0..Len(s).
Slice(s, from, to) == IF from >= to THEN <<>> ELSE SubSeq(s, from + 1, to)

\* a.slice(0, -b) for b > 0 (part_000:352).
DropLast(s, b) ==
    IF b.t = "NonFinite" THEN <<>>
    ELSE Slice(s, 0, Max(Len(s) - b.n, 0))

\* b.slice(a) (part_000:353): a negative offset counts from the end, NaN
\* is offset 0.
SliceFrom(s, a) ==
    IF a = Inf THEN <<>>
    ELSE IF a.t = "NonFinite" THEN s
    ELSE IF a.n < 0 THEN Slice(s, Max(Len(s) + a.n, 0), Len(s))
    ELSE Slice(s, Min(a.n, Len(s)), Len(s))

Op(sym) == IF sym = "==" THEN <<"=", "=">> ELSE <<sym>>

\* VM.applyBinary: [err, val]; err is "none" or the message of the Error
\* thrown.
applyBinary(op, a, b) ==
    LET ok(v) == [err |-> "none", val |-> v]
        throw(msg) == [err |-> msg, val |-> UndefV]
    IN
    IF op = Op("==") THEN ok(Bool01(StrictEq(a, b)))
    ELSE IF IsNumber(a) /\ IsNumber(b) /\ op = Op("+") THEN ok(NumAdd(a, b))
    ELSE IF IsNumber(a) /\ IsNumber(b) /\ op = Op("-") THEN ok(NumAdd(a, Neg(b)))
    ELSE IF IsNumber(a) /\ IsNumber(b) /\ op = Op("*") THEN ok(NumMul(a, b))
    ELSE IF IsNumber(a) /\ IsNumber(b) /\ op = Op("/")
    THEN (IF b = IntV(0) THEN throw("Div by zero") ELSE ok(NumFloorDiv(a, b)))
    ELSE IF IsNumber(a) /\ IsNumber(b) /\ op = Op("%")
    THEN (IF b = IntV(0) THEN throw("Mod by zero") ELSE ok(NumRem(a, b)))
    ELSE IF IsNumber(a) /\ IsNumber(b) /\ op = Op(">") THEN ok(Bool01(NumLess(b, a)))
    ELSE IF IsNumber(a) /\ IsNumber(b) /\ op = Op("<") THEN ok(Bool01(NumLess(a, b)))
    ELSE IF a.t = "Str" /\ b.t = "Str" /\ op = Op("+") THEN ok(StrV(a.s \o b.s))
    ELSE IF a.t = "Str" /\ IsNumber(b) /\ op = Op("-")
    THEN ok(StrV(IF NumLess(IntV(0), b) THEN DropLast(a.s, b) ELSE a.s))
    ELSE IF IsNumber(a) /\ b.t = "Str" /\ op = Op("-") THEN ok(StrV(SliceFrom(b.s, a)))
    ELSE throw("Invalid Op")

\* The number branch of BINARY_OP (part_000:201-209): [err, val].
BinaryFastPath(opSym, a, b) ==
    LET ok(v) == [err |-> "none", val |-> v] IN
    IF opSym = Op("+") THEN ok(NumAdd(a, b))
    ELSE IF opSym = Op("-") THEN ok(NumAdd(a, Neg(b)))
    ELSE IF opSym = Op("*") THEN ok(NumMul(a, b))
    ELSE IF opSym = Op("/") THEN ok(NumFloorDiv(a, b))
    ELSE IF opSym = Op("==") THEN ok(Bool01(StrictEq(a, b)))
    ELSE IF opSym = Op(">") THEN ok(Bool01(NumLess(b, a)))
    ELSE IF opSym = Op("<") THEN ok(Bool01(NumLess(a, b)))
    ELSE applyBinary(opSym, a, b)

\* VM.isTruthy.
isTruthy(val) ==
    val # IntV(0) /\ val # StrV(<<>>) /\ val # NilV /\ val # UndefV

\* ---------------------------------------------------------------- state
VARIABLES
    sourceText,  \* the text given to run; <<>> when the statements are given parsed
    ast,         \* the parsed statements handed to Compiler.compile
    code,        \* Program.code
    pool,        \* Program.pool
    sourceMap,   \* Program.sourceMap
    ip,          \* VM.ip
    stack,       \* VM.stack[0 .. sp-1]; sp is Len(stack)
    callStack,   \* VM.callStack: frames [returnAddr, env]
    envs,        \* the heap of RuntimeEnv records [values, parent]; parent 0 is null
    env,         \* VM.env: the index in envs of the active environment
    globals,     \* VM.globalEnv.data
    isRunning,   \* VM.isRunning
    made,        \* the number of closure objects created so far
    output,      \* the lines the print sink has received
    pc,          \* where the host is: "text", "rejected" (the text did not parse),
                 \* "source", "idle" (between calls), "run" (inside VM.run),
                 \* "env" (the class Env is used on its own)
    outcome,     \* how the last call of step() or run() ended
    acts,        \* history: one record per frame of callStack, about the CALL that pushed it
    faulted,     \* history: some call of step() or run() has thrown
    envBlock,    \* history: per environment, the entry address of its block
    driven,      \* history: the calls this VM has had: "fresh" (none), "run" (one
                 \* call of run() and nothing else), "step" (calls of step()
                 \* and nothing else), "mixed"
    firstRun,    \* history: how the run of the first VM ended, once a second VM
                 \* has been made for the same program
    chain,       \* the Env objects [data, parent] a user of the class Env has
                 \* made; parent 0 is null
    called       \* history: the last call made on an Env object

prog == <<sourceText, ast, code, pool, sourceMap>>

mach == <<ip, stack, callStack, envs, env, globals, isRunning, made, output>>

vars == <<sourceText, ast, code, pool, sourceMap, ip, stack, callStack, envs, env, globals,
          isRunning, made, output, pc, outcome, acts, faulted, envBlock, driven, firstRun,
          chain, called>>

hist == <<acts, faulted, envBlock>>

runs == <<driven, firstRun>>

lib == <<chain, called>>

\* The VM's mutable fields as one record; err is "none" or the message of
\* the Error an instruction has thrown.
Machine ==
    [ip |-> ip, stack |-> stack, callStack |-> callStack, envs |-> envs,
     env |-> env, globals |-> globals, isRunning |-> isRunning, made |-> made,
     output |-> output, err |-> "none"]

\* ---------------------------------------------------------- host natives
Name_print == <<"p", "r", "i", "n", "t">>

Name_to_n == <<"t", "o", "_", "n">>

Name_to_s == <<"t", "o", "_", "s">>

Name_toString == <<"t", "o", "S", "t", "r", "i", "n", "g">>

Name_valueOf == <<"v", "a", "l", "u", "e", "O", "f">>

\* public data: Record<string, EvalResult> = {}: data is a plain object, so
\* `key in data` also finds the members it inherits from Object.prototype.
\* The function-valued members that the programs of the catalogue name.
InheritedNames == {Name_toString, Name_valueOf}

\* key in curr.data
HasKey(data, key) == key \in DOMAIN data \/ key \in InheritedNames

\* curr.data[key] when key in curr.data: the own property, else the
\* inherited function.
DataAt(data, key) == IF key \in DOMAIN data THEN data[key] ELSE NativeV(key)

\* createGlobalEnv: the data of the default global environment.
createGlobalEnv ==
    [name \in {Name_print, Name_to_n, Name_to_s} |-> NativeV(name)]

\* args[i] of a JavaScript call, 0-based: undefined when not passed.
Arg(args, i) == IF i >= 0 /\ i < Len(args) THEN At(args, i) ELSE UndefV

\* v ?? d
Coalesce(v, d) == IF v \in {NilV, UndefV} THEN d ELSE v

\* The call callable(...args) of a host function: [m, result].
CallNative(m, name, args) ==
    CASE name = Name_print ->
           [m |-> [m EXCEPT !.output =
                       Append(@, Join([k \in 1..Len(args) |-> PrintArg(args[k])], <<" ">>))],
            result |-> Coalesce(Arg(args, Len(args) - 1), NilV)]
      [] name = Name_to_n ->
           [m |-> m, result |-> IntV(ParseIntOr0(ToStr(Arg(args, 0))))]
      [] name = Name_to_s ->
           [m |-> m, result |-> StrV(ToStr(Arg(args, 0)))]
      [] name = Name_toString ->
           \* Object.prototype.toString called with this undefined
           [m |-> m, result |-> StrV(<<"[", "o", "b", "j", "e", "c", "t", " ", "U", "n", "d", "e", "f", "i", "n", "e", "d", "]">>)]
      [] name = Name_valueOf ->
           \* Object.prototype.valueOf called with this undefined
           [m |-> [m EXCEPT !.err = "TypeError"], result |-> UndefV]

\* -------------------------------------------------------------------- VM
Throw(m, msg) == IF m.err # "none" THEN m ELSE [m EXCEPT !.err = msg]

\* VM.push; a machine that has thrown executes nothing more.
push(m, val) ==
    IF m.err # "none" THEN m
    ELSE IF Len(m.stack) >= STACK_SIZE THEN Throw(m, "Stack Overflow")
    ELSE [m EXCEPT !.stack = Append(@, val)]

\* VM.peek: stack[sp - 1], undefined on an empty stack.
peek(m) == IF Len(m.stack) > 0 THEN m.stack[Len(m.stack)] ELSE UndefV

\* VM.pop: the machine after the pop; the value popped is peek of the
\* machine before.
pop(m) ==
    IF m.err # "none" THEN m
    ELSE IF Len(m.stack) <= 0 THEN Throw(m, "Stack Underflow")
    ELSE [m EXCEPT !.stack = SubSeq(@, 1, Len(@) - 1)]

RECURSIVE popN(_, _)
\* n successive pops (the argument loop of performCall).
popN(m, n) == IF n = 0 THEN m ELSE popN(pop(m), n - 1)

\* The slot read this.code[a]; -1 stands for the undefined of a read past
\* the end.
CodeAt(a) == IF a >= 0 /\ a < Len(code) THEN At(code, a) ELSE -1

\* pool[k] as a runtime value.
PoolValue(k) ==
    IF k < 0 \/ k >= Len(pool) THEN UndefV
    ELSE LET e == At(pool, k) IN
         CASE e.k = "number" -> IntV(e.n)
           [] e.k = "string" -> StrV(e.s)
           [] OTHER -> UndefV

\* pool[k] as a name or operator symbol.
PoolName(k) ==
    IF k >= 0 /\ k < Len(pool) /\ At(pool, k).k = "string" THEN At(pool, k).s
    ELSE Chars_undefined

\* pool[k] as a parameter list.
PoolParams(k) ==
    IF k >= 0 /\ k < Len(pool) /\ At(pool, k).k = "object" THEN At(pool, k).a
    ELSE <<>>

RECURSIVE Walk(_, _, _)
\* The loop curr = curr!.parent of LOAD_UPVALUE and STORE_UPVALUE: the index
\* reached after hops links, 0 for null, -1 when a link of null is read
\* (a TypeError).
Walk(heap, curr, hops) ==
    IF hops <= 0 THEN curr
    ELSE IF curr = 0 THEN -1
    ELSE Walk(heap, heap[curr].parent, hops - 1)

\* values[idx] of an environment: undefined for a hole or past the end.
SlotAt(values, idx) ==
    IF idx >= 0 /\ idx < Len(values) THEN At(values, idx) ELSE UndefV

\* The values array of a new environment (part_000:310-315).
NewValues(localsCount, args) ==
    [k \in 1..Max(localsCount, Len(args)) |->
        IF k <= Len(args) THEN Coalesce(args[k], IntV(0)) ELSE UndefV]

\* A frame push that does not look at isTail.
PushFrameAlways(m, isTail) ==
    Append(m.callStack, [returnAddr |-> m.ip, env |-> m.env])

\* The call stack after the frame push of performCall (part_000:304-306).
PushFrame(m, isTail) ==
    IF isTail THEN m.callStack
    ELSE Append(m.callStack, [returnAddr |-> m.ip, env |-> m.env])

\* A call of a closure whose environment is linked to a copy of the captured
\* environment instead of the captured environment itself.
EnterClosureOnCopy(m, closure, args, isTail) ==
    [m EXCEPT
        !.callStack = PushFrame(m, isTail),
        !.envs = @ \o << m.envs[closure.env],
                         [values |-> NewValues(closure.localsCount, args),
                          parent |-> Len(m.envs) + 1] >>,
        !.env = Len(m.envs) + 2,
        !.ip = closure.entryAddr]

\* The closure arm of VM.performCall (part_000:301-323): the frame unless
\* the call is a tail call, a new environment with the arguments in its
\* first slots and the captured environment as its parent, and the jump.
EnterClosure(m, closure, args, isTail) ==
    [m EXCEPT
        !.callStack = PushFrame(m, isTail),
        !.envs = Append(@, [values |-> NewValues(closure.localsCount, args),
                            parent |-> closure.env]),
        !.env = Len(m.envs) + 1,
        !.ip = closure.entryAddr]

\* VM.performCall, entered with ip already past the instruction.
performCall(m0, argc, isTail) ==
    LET m1 == popN(m0, argc)
        args == SubSeq(m0.stack, Len(m0.stack) - argc + 1, Len(m0.stack))
        callable == peek(m1)
        m2 == pop(m1)
    IN
    IF m2.err # "none" THEN m2
    ELSE IF callable.t = "Native"
    THEN LET r == CallNative(m2, callable.name, args) IN push(r.m, r.result)
    ELSE IF callable.t = "Closure"
    THEN EnterClosure(m2, callable, args, isTail)
    ELSE Throw(m2, "Target is not callable")

\* Env.get of the global environment (interpreter.ts:198-205).
EnvGet(m, name) ==
    IF HasKey(m.globals, name)
    THEN [err |-> "none", val |-> DataAt(m.globals, name)]
    ELSE [err |-> "Undefined variable", val |-> UndefV]

\* A store that keeps no binding but the one it writes.
EnvSetOnly(g, name, val) == [n \in {name} |-> val]

\* Env.set of the global environment, which has no parent
\* (interpreter.ts:207-217).
EnvSet(g, name, val) ==
    [n \in DOMAIN g \cup {name} |-> IF n = name THEN val ELSE g[n]]

RECURSIVE Holder(_, _, _)
\* The loop of Env.get and Env.set from the Env e: the nearest Env of the
\* parent chain with `key in curr.data`, 0 when the loop ends at null.
Holder(h, e, key) ==
    IF e = 0 THEN 0
    ELSE IF HasKey(h[e].data, key) THEN e
    ELSE Holder(h, h[e].parent, key)

\* Env.get on the Env e of the heap h (interpreter.ts:198-205).
Env_get(h, e, key) ==
    LET curr == Holder(h, e, key) IN
    IF curr # 0 THEN [err |-> "none", val |-> DataAt(h[curr].data, key)]
    ELSE [err |-> "Undefined variable", val |-> UndefV]

\* The Env that Env.set writes to: curr of the loop when it finds the key,
\* this (the Env the call was made on) when it does not
\* (interpreter.ts:207-217).
SetTarget(h, e, key) ==
    LET curr == Holder(h, e, key) IN IF curr # 0 THEN curr ELSE e

\* Env.set on the Env e of the heap h.
Env_set(h, e, key, val) ==
    [h EXCEPT ![SetTarget(h, e, key)].data = EnvSet(@, key, val)]

\* Env.child: new Env(this), with no data of its own.
Env_child(h, e) == Append(h, [data |-> [n \in {} |-> UndefV], parent |-> e])

\* The BINARY_OP case after its operand read.
BinaryOp(m0, opSym) ==
    LET b == peek(m0)
        m1 == pop(m0)
        a == peek(m1)
        m2 == pop(m1)
        r == IF IsNumber(a) /\ IsNumber(b) THEN BinaryFastPath(opSym, a, b)
             ELSE applyBinary(opSym, a, b)
    IN  IF m2.err # "none" THEN m2
        ELSE IF r.err # "none" THEN Throw(m2, r.err)
        ELSE push(m2, r.val)

\* A test that takes only closures for callable.
IsClosureOnly(val) == val.t = "Closure"

\* typeof val === 'function' || (val && val.type === 'Closure'), the test
\* of CALL_IF_CLOSURE (part_000:253).
IsCallable(val) == val.t \in {"Native", "Closure"}

\* A return that goes back to the caller's address in the callee's
\* environment.
ReturnKeepingEnv(m, frame) ==
    [m EXCEPT !.callStack = SubSeq(@, 1, Len(@) - 1),
              !.ip = frame.returnAddr]

\* RETURN with a frame popped: this.ip = frame.returnAddr; this.env =
\* frame.env (part_000:264-267).
ReturnTo(m, frame) ==
    [m EXCEPT !.callStack = SubSeq(@, 1, Len(@) - 1),
              !.ip = frame.returnAddr,
              !.env = frame.env]

\* A value read of a store that takes the value off the stack.
StoreReadPop(m) == [m |-> pop(m), val |-> peek(m)]

\* const val = this.peek() of the three stores (part_000:154, 179, 191): the
\* machine after the read, and the value read.
StoreRead(m) == [m |-> m, val |-> peek(m)]

\* VM.executeInstruction: one opcode with its operand reads.
executeInstruction(m0) ==
    LET op == CodeAt(m0.ip)
        a1 == CodeAt(m0.ip + 1)
        a2 == CodeAt(m0.ip + 2)
        a3 == CodeAt(m0.ip + 3)
        m == [m0 EXCEPT !.ip = @ + 1]
        adv(k) == [m0 EXCEPT !.ip = @ + 1 + k]
    IN
    CASE op = PUSH_CONST -> push(adv(1), PoolValue(a1))
      [] op = LOAD_LOCAL -> push(adv(1), SlotAt(m.envs[m.env].values, a1))
      [] op = STORE_LOCAL ->
           LET r == StoreRead(adv(1)) IN
           [r.m EXCEPT !.envs[m.env].values = SetAt(@, a1, r.val, UndefV)]
      [] op = LOAD_UPVALUE ->
           LET curr == Walk(m.envs, m.env, a2) IN
           IF curr = -1 THEN Throw(adv(2), "TypeError")
           ELSE IF curr = 0 THEN Throw(adv(2), "Upvalue lookup failed")
           ELSE push(adv(2), SlotAt(m.envs[curr].values, a1))
      [] op = STORE_UPVALUE ->
           LET curr == Walk(m.envs, m.env, a2) IN
           IF curr = -1 THEN Throw(adv(2), "TypeError")
           ELSE IF curr = 0 THEN Throw(adv(2), "Upvalue store failed")
           ELSE LET r == StoreRead(adv(2)) IN
                [r.m EXCEPT !.envs[curr].values = SetAt(@, a1, r.val, UndefV)]
      [] op = LOAD_GLOBAL ->
           LET r == EnvGet(m, PoolName(a1)) IN
           IF r.err # "none" THEN Throw(adv(1), r.err) ELSE push(adv(1), r.val)
      [] op = STORE_GLOBAL ->
           LET r == StoreRead(adv(1)) IN
           [r.m EXCEPT !.globals = EnvSet(@, PoolName(a1), r.val)]
      [] op = BINARY_OP -> BinaryOp(adv(1), PoolName(a1))
      [] op = JUMP -> [m EXCEPT !.ip = a1]
      [] op = JUMP_IF_F ->
           LET m1 == pop(adv(1)) IN
           IF m1.err = "none" /\ ~isTruthy(peek(m)) THEN [m1 EXCEPT !.ip = a1] ELSE m1
      [] op = MAKE_BLOCK ->
           LET m1 == push(adv(3), ClosureV(m.made + 1, PoolParams(a1), a2, a3, m.env)) IN
           IF m1.err = "none" THEN [m1 EXCEPT !.made = @ + 1] ELSE m1
      [] op \in {CALL, TAIL_CALL} -> performCall(adv(1), a1, op = TAIL_CALL)
      [] op \in {CALL_IF_CLOSURE, TAIL_CALL_IF_CLOSURE} ->
           LET val == peek(m)
               m1 == pop(m)
           IN  IF IsCallable(val)
               THEN performCall(push(m1, val), 0, op = TAIL_CALL_IF_CLOSURE)
               ELSE push(m1, Coalesce(val, NilV))
      [] op = RETURN ->
           IF Len(m.callStack) = 0
           THEN Throw(m, "Stack underflow: return outside of call")
           ELSE ReturnTo(m, m.callStack[Len(m.callStack)])
      [] op = HALT -> [m EXCEPT !.isRunning = FALSE]
      [] op = POP -> pop(m)
      [] OTHER -> Throw(m, "Unknown OpCode")

\* ---------------------------------------------------------------- tokenizer
Letters ==
    {"a", "b", "c", "d", "e", "f", "g", "h", "i", "j", "k", "l", "m", "n", "o",
     "p", "q", "r", "s", "t", "u", "v", "w", "x", "y", "z",
     "A", "B", "C", "D", "E", "F", "G", "H", "I", "J", "K", "L", "M", "N", "O",
     "P", "Q", "R", "S", "T", "U", "V", "W", "X", "Y", "Z"}

\* The character classes of the regular expressions of TOKEN_SPECS.
InClass(cls, ch) ==
    CASE cls = "space" -> IsSpace(ch)
      [] cls = "digit" -> IsDigit(ch)
      [] cls = "word" -> ch \in Letters \/ IsDigit(ch) \/ ch = "_"
      [] cls = "notNewline" -> ch \notin {"\n", "\r"}
      [] cls = "notQuote" -> ch # "\""
      [] OTHER -> FALSE

RECURSIVE RunOf(_, _, _)
\* The number of characters of class cls that s holds from position i on
\* (1-based) without a break.
RunOf(s, i, cls) ==
    IF i <= Len(s) /\ InClass(cls, s[i]) THEN 1 + RunOf(s, i + 1, cls) ELSE 0

\* The token types in the order of TOKEN_SPECS.
TokenTypes ==
    <<"COMMENT", "WHITESPACE", "STRING", "NUMBER", "ID", "OP", "LBRACK",
      "RBRACK", "LPAREN", "RPAREN", "COMMA", "EQ">>

\* The length of the match of the regular expression of a token type at the
\* start of s; 0 when it does not match.
MatchLen(type, s) ==
    LET first == IF Len(s) > 0 THEN s[1] ELSE "" IN
    CASE type = "COMMENT" -> IF first = "#" THEN 1 + RunOf(s, 2, "notNewline") ELSE 0
      [] type = "WHITESPACE" -> RunOf(s, 1, "space")
      [] type = "STRING" ->
           LET n == RunOf(s, 2, "notQuote") IN
           IF first = "\"" /\ n + 2 <= Len(s) THEN n + 2 ELSE 0
      [] type = "NUMBER" ->
           LET sign == IF first = "-" THEN 1 ELSE 0
               n == RunOf(s, sign + 1, "digit")
           IN  IF n > 0 THEN sign + n ELSE 0
      [] type = "ID" ->
           LET d == IF first = "$" THEN 1 ELSE 0 IN
           IF d + 1 <= Len(s) /\ (s[d + 1] \in Letters \/ s[d + 1] = "_")
           THEN d + 1 + RunOf(s, d + 2, "word") ELSE 0
      [] type = "OP" ->
           IF Len(s) >= 2 /\ s[1] = "=" /\ s[2] = "=" THEN 2
           ELSE IF first \in {"+", "-", "*", "/", "%", "<", ">"} THEN 1 ELSE 0
      [] type = "LBRACK" -> IF first = "[" THEN 1 ELSE 0
      [] type = "RBRACK" -> IF first = "]" THEN 1 ELSE 0
      [] type = "LPAREN" -> IF first = "(" THEN 1 ELSE 0
      [] type = "RPAREN" -> IF first = ")" THEN 1 ELSE 0
      [] type = "COMMA" -> IF first = "," THEN 1 ELSE 0
      [] type = "EQ" -> IF first = "=" THEN 1 ELSE 0
      [] OTHER -> 0

\* The number of newlines in s.
Newlines(s) == Cardinality({k \in 1..Len(s) : s[k] = "\n"})

Token(type, value, line) == [type |-> type, value |-> value, line |-> line]

RECURSIVE tokenizeFrom(_, _, _, _)
\* The while loop of tokenize from cursor on: the first specification that
\* matches makes a token (comments and white space make none).
\* [err, tokens]
tokenizeFrom(src, cursor, line, tokens) ==
    IF cursor >= Len(src) THEN [err |-> "none", tokens |-> tokens]
    ELSE LET slice == SubSeq(src, cursor + 1, Len(src))
             hits == {k \in 1..Len(TokenTypes) : MatchLen(TokenTypes[k], slice) > 0}
         IN  IF hits = {}
             THEN [err |-> "Unexpected character", tokens |-> tokens]
             ELSE LET k == CHOOSE h \in hits : \A j \in hits : h <= j
                      type == TokenTypes[k]
                      val == SubSeq(slice, 1, MatchLen(type, slice))
                      out == IF type \in {"COMMENT", "WHITESPACE"} THEN tokens
                             ELSE Append(tokens, Token(type, val, line))
                  IN  IF Len(out) >= 0
                      THEN tokenizeFrom(src, cursor + Len(val),
                                        line + Newlines(val), out)
                      ELSE [err |-> "none", tokens |-> out]

tokenize(src) == tokenizeFrom(src, 0, 1, <<>>)

\* ------------------------------------------------------------------- parser
\* A parser result is [err, node, i]: err is "none" or the cause of the
\* Error thrown, node the tree built, i the index of the next token
\* (0-based, as this.i).
Parsed(node, i) == [err |-> "none", node |-> node, i |-> i]

ParseError(msg, i) == [err |-> msg, node |-> IntNode(0, 0), i |-> i]

\* Parser.peek: this.tokens[this.i] || null; the type of null is "EOF".
PeekType(ts, i) == IF i < Len(ts) THEN At(ts, i).type ELSE "EOF"

\* The test of a keyword: an ID token with this value.
IsWord(ts, i, word) == PeekType(ts, i) = "ID" /\ At(ts, i).value = word

\* Parser.eat(type) where the token is not used: the index after it, or the
\* Error.
Eat(ts, i, type) ==
    IF i >= Len(ts) THEN ParseError("Unexpected end of input", i)
    ELSE IF At(ts, i).type # type THEN ParseError("Expected " \o type, i)
    ELSE Parsed(IntNode(0, 0), i + 1)

Word_if == <<"i", "f">>

Word_then == <<"t", "h", "e", "n">>

Word_else == <<"e", "l", "s", "e">>

RECURSIVE expr(_, _), ExprOps(_, _, _), term(_, _), BlockItems(_, _, _, _, _),
          CallPostfix(_, _, _), CallArgs(_, _, _), Descend(_, _, _, _),
          ExprOpsRight(_, _, _)

\* Parser.expr: an assignment, an if expression, or terms joined by
\* operators from left to right.
expr(ts, i) ==
    IF i >= Len(ts) THEN ParseError("Unexpected end of input", i)
    ELSE IF PeekType(ts, i) = "ID" /\ PeekType(ts, i + 1) = "EQ"
    THEN LET r == expr(ts, i + 2) IN
         IF r.err # "none" THEN r
         ELSE Parsed(AssignNode(At(ts, i).value, r.node, At(ts, i).line), r.i)
    ELSE IF IsWord(ts, i, Word_if)
    THEN LET c == expr(ts, i + 1)
             j == IF c.err = "none" /\ IsWord(ts, c.i, Word_then) THEN c.i + 1 ELSE c.i
             t == IF c.err = "none" THEN expr(ts, j) ELSE c
             hasElse == t.err = "none" /\ IsWord(ts, t.i, Word_else)
             e == IF hasElse THEN expr(ts, t.i + 1)
                  ELSE Parsed(IntNode(0, At(ts, i).line), t.i)
         IN  IF c.err # "none" THEN c
             ELSE IF t.err # "none" THEN t
             ELSE IF e.err # "none" THEN e
             ELSE Parsed(IfNode(c.node, t.node, e.node, At(ts, i).line), e.i)
    ELSE LET r == Descend("term", ts, i, <<>>) IN
         IF r.err # "none" THEN r ELSE Descend("ExprOps", ts, r.i, <<r.node>>)

\* A loop that reads the rest of the chain as the right operand.
ExprOpsRight(ts, i, node) ==
    IF PeekType(ts, i) # "OP" THEN Parsed(node, i)
    ELSE LET right == Descend("term", ts, i + 1, <<>>)
             rest == ExprOpsRight(ts, right.i, right.node)
         IN  IF right.err # "none" THEN right
             ELSE IF rest.err # "none" THEN rest
             ELSE Parsed(BinOpNode(At(ts, i).value, node, rest.node, At(ts, i).line),
                         rest.i)

\* The while loop of Parser.expr (interpreter.ts:124-128).
ExprOps(ts, i, node) ==
    IF PeekType(ts, i) # "OP" THEN Parsed(node, i)
    ELSE LET right == Descend("term", ts, i + 1, <<>>) IN
         IF right.err # "none" THEN right
         ELSE ExprOps(ts, right.i,
                      BinOpNode(At(ts, i).value, node, right.node, At(ts, i).line))

\* Parser.term: a primary with its call postfixes.
term(ts, i) ==
    LET type == PeekType(ts, i)
        t == At(ts, i)
        primary ==
            CASE type = "EOF" -> ParseError("Unexpected end of input", i)
              [] type = "LPAREN" ->
                   LET r == Descend("expr", ts, i + 1, <<>>)
                       close == Eat(ts, r.i, "RPAREN")
                   IN  IF r.err # "none" THEN r
                       ELSE IF close.err # "none" THEN close
                       ELSE Parsed(r.node, close.i)
              [] type = "NUMBER" -> Parsed(IntNode(ParseIntOr0(t.value), t.line), i + 1)
              [] type = "STRING" ->
                   Parsed(StrNode(SubSeq(t.value, 2, Len(t.value) - 1), t.line), i + 1)
              [] type = "ID" -> Parsed(VarNode(t.value, t.line), i + 1)
              [] type = "LBRACK" -> Descend("BlockItems", ts, i + 1, <<<<>>, <<>>, t.line>>)
              [] OTHER -> ParseError("Unexpected token " \o type, i)
    IN  IF primary.err # "none" THEN primary
        ELSE Descend("CallPostfix", ts, primary.i, <<primary.node>>)

\* The while loop of a block literal (interpreter.ts:155-165) and its
\* closing bracket.
BlockItems(ts, i, params, body, line) ==
    IF PeekType(ts, i) \in {"EOF", "RBRACK"}
    THEN LET close == Eat(ts, i, "RBRACK") IN
         IF close.err # "none" THEN close
         ELSE Parsed(BlockNode(params, body, line), close.i)
    ELSE IF PeekType(ts, i) = "ID" /\ At(ts, i).value[1] = "$"
    THEN LET j == IF PeekType(ts, i + 1) = "COMMA" THEN i + 2 ELSE i + 1 IN
         BlockItems(ts, j, Append(params, Tail(At(ts, i).value)), body, line)
    ELSE LET r == Descend("expr", ts, i, <<>>)
             j == IF PeekType(ts, r.i) = "COMMA" THEN r.i + 1 ELSE r.i
         IN  IF r.err # "none" THEN r
             ELSE BlockItems(ts, j, params, Append(body, r.node), line)

\* The while loop of call postfixes (interpreter.ts:172-184).
CallPostfix(ts, i, node) ==
    IF PeekType(ts, i) # "LPAREN" THEN Parsed(node, i)
    ELSE LET first == IF PeekType(ts, i + 1) # "RPAREN"
                      THEN Descend("expr", ts, i + 1, <<>>)
                      ELSE Parsed(IntNode(0, 0), i + 1)
             args == IF first.err # "none" THEN [err |-> first.err, args |-> <<>>, i |-> first.i]
                     ELSE IF PeekType(ts, i + 1) # "RPAREN"
                     THEN Descend("CallArgs", ts, first.i, <<<<first.node>>>>)
                     ELSE [err |-> "none", args |-> <<>>, i |-> i + 1]
             close == Eat(ts, args.i, "RPAREN")
         IN  IF args.err # "none" THEN ParseError(args.err, args.i)
             ELSE IF close.err # "none" THEN close
             ELSE CallPostfix(ts, close.i, CallNode(node, args.args, At(ts, i).line))

\* The loop over the arguments after the first: [err, args, i].
CallArgs(ts, i, args) ==
    IF PeekType(ts, i) # "COMMA" THEN [err |-> "none", args |-> args, i |-> i]
    ELSE LET r == Descend("expr", ts, i + 1, <<>>) IN
         IF r.err # "none" THEN [err |-> r.err, args |-> args, i |-> r.i]
         ELSE CallArgs(ts, r.i, Append(args, r.node))

\* The call of one method of the parser from another: method names the
\* callee, given holds what the caller passes on besides the position.
Descend(method, ts, i, given) ==
    CASE method = "expr" -> expr(ts, i)
      [] method = "term" -> term(ts, i)
      [] method = "ExprOps" -> ExprOps(ts, i, given[1])
      [] method = "BlockItems" -> BlockItems(ts, i, given[1], given[2], given[3])
      [] method = "CallPostfix" -> CallPostfix(ts, i, given[1])
      [] method = "CallArgs" -> CallArgs(ts, i, given[1])

RECURSIVE parseFrom(_, _, _)
\* The while loop of Parser.parse: [err, ast].
parseFrom(ts, i, statements) ==
    IF i >= Len(ts) THEN [err |-> "none", ast |-> statements]
    ELSE LET r == Descend("expr", ts, i, <<>>) IN
         IF r.err # "none" THEN [err |-> r.err, ast |-> statements]
         ELSE parseFrom(ts, r.i, Append(statements, r.node))

parse(ts) == parseFrom(ts, 0, <<>>)

\* ------------------------------------------------------------- programs
\* The sources the model compiles and runs, as the syntax trees the parser
\* builds for them; statement k of a source stands on line k.
Name_x == <<"x">>

Name_y == <<"y">>

Name_f == <<"f">>

Name_g == <<"g">>

Name_n == <<"n">>

Name_a == <<"a">>

Name_b == <<"b">>

Name_c == <<"c">>

Name_k == <<"k">>

Name_loop == <<"l", "o", "o", "p">>

Name_fact == <<"f", "a", "c", "t">>

Name_add_n == <<"a", "d", "d", "_", "n">>

Name_add5 == <<"a", "d", "d", "5">>

PrintCall(args, line) == CallNode(VarNode(Name_print, line), args, line)

\* x = 10 / y = 20 / print("Sum:", x + y)
Src_Arith ==
    << AssignNode(Name_x, IntNode(10, 1), 1),
       AssignNode(Name_y, IntNode(20, 2), 2),
       PrintCall(<<StrNode(<<"S", "u", "m", ":">>, 3),
               BinOpNode(Op("+"), VarNode(Name_x, 3), VarNode(Name_y, 3), 3)>>, 3) >>

\* fact = [ $n, if (n < 2) then [1] else [ n * fact(n - 1) ] ] / print(fact(N))
Src_Fact(N) ==
    << AssignNode(Name_fact,
         BlockNode(<<Name_n>>,
           <<IfNode(BinOpNode(Op("<"), VarNode(Name_n, 1), IntNode(2, 1), 1),
                    BlockNode(<<>>, <<IntNode(1, 1)>>, 1),
                    BlockNode(<<>>,
                      <<BinOpNode(Op("*"), VarNode(Name_n, 1),
                          CallNode(VarNode(Name_fact, 1),
                            <<BinOpNode(Op("-"), VarNode(Name_n, 1), IntNode(1, 1), 1)>>, 1),
                          1)>>, 1),
                    1)>>, 1), 1),
       PrintCall(<<CallNode(VarNode(Name_fact, 2), <<IntNode(N, 2)>>, 2)>>, 2) >>

\* add_n = [ $n, [ $x, x + n ] ] / add5 = add_n(5) / print(add5(10))
Src_Curry ==
    << AssignNode(Name_add_n,
         BlockNode(<<Name_n>>,
           <<BlockNode(<<Name_x>>,
               <<BinOpNode(Op("+"), VarNode(Name_x, 1), VarNode(Name_n, 1), 1)>>, 1)>>, 1), 1),
       AssignNode(Name_add5, CallNode(VarNode(Name_add_n, 2), <<IntNode(5, 2)>>, 2), 2),
       PrintCall(<<CallNode(VarNode(Name_add5, 3), <<IntNode(10, 3)>>, 3)>>, 3) >>

\* loop(n - 1)
LoopCall == CallNode(VarNode(Name_loop, 1),
              <<BinOpNode(Op("-"), VarNode(Name_n, 1), IntNode(1, 1), 1)>>, 1)

\* loop = [ $n, if (n == 0) then [0] else [ loop(n - 1) ] ] / print(loop(N))
Src_LoopBracketed(N) ==
    << AssignNode(Name_loop,
         BlockNode(<<Name_n>>,
           <<IfNode(BinOpNode(Op("=="), VarNode(Name_n, 1), IntNode(0, 1), 1),
                    BlockNode(<<>>, <<IntNode(0, 1)>>, 1),
                    BlockNode(<<>>, <<LoopCall>>, 1),
                    1)>>, 1), 1),
       PrintCall(<<CallNode(VarNode(Name_loop, 2), <<IntNode(N, 2)>>, 2)>>, 2) >>

\* loop = [ $n, if (n == 0) then 0 else loop(n - 1) ] / print(loop(N))
Src_LoopBranch(N) ==
    << AssignNode(Name_loop,
         BlockNode(<<Name_n>>,
           <<IfNode(BinOpNode(Op("=="), VarNode(Name_n, 1), IntNode(0, 1), 1),
                    IntNode(0, 1),
                    LoopCall,
                    1)>>, 1), 1),
       PrintCall(<<CallNode(VarNode(Name_loop, 2), <<IntNode(N, 2)>>, 2)>>, 2) >>

\* loop = [ $n, x = n, loop(n - 1) ] is not in the catalogue: it never ends.

\* g = [ $x, x ] / f = [ $x, g(x) ] / print(f(N) + 1)
Src_TailToOther(N) ==
    << AssignNode(Name_g, BlockNode(<<Name_x>>, <<VarNode(Name_x, 1)>>, 1), 1),
       AssignNode(Name_f,
         BlockNode(<<Name_x>>,
           <<CallNode(VarNode(Name_g, 2), <<VarNode(Name_x, 2)>>, 2)>>, 2), 2),
       PrintCall(<<BinOpNode(Op("+"),
                 CallNode(VarNode(Name_f, 3), <<IntNode(N, 3)>>, 3),
                 IntNode(1, 3), 3)>>, 3) >>

\* x = [](1, 2, ...) / print(x): a block with no body expression, called
\* with N arguments.
Src_EmptyBlock(N) ==
    << AssignNode(Name_x,
         CallNode(BlockNode(<<>>, <<>>, 1), [k \in 1..N |-> IntNode(k, 1)], 1), 1),
       PrintCall(<<VarNode(Name_x, 2)>>, 2) >>

\* f = [ $a, $b, b ] / print(f(1)): parameter b receives no argument.
Src_MissingArg ==
    << AssignNode(Name_f,
         BlockNode(<<Name_a, Name_b>>, <<VarNode(Name_b, 1)>>, 1), 1),
       PrintCall(<<CallNode(VarNode(Name_f, 2), <<IntNode(1, 2)>>, 2)>>, 2) >>

\* f = [ $c, if (c) then (y = 1) else 0, y ] / print(f(N)): for N = 0 the
\* local y is read before any store to it.
Src_UnsetLocal(N) ==
    << AssignNode(Name_f,
         BlockNode(<<Name_c>>,
           <<IfNode(VarNode(Name_c, 1),
                    AssignNode(Name_y, IntNode(1, 1), 1),
                    IntNode(0, 1), 1),
             VarNode(Name_y, 1)>>, 1), 1),
       PrintCall(<<CallNode(VarNode(Name_f, 2), <<IntNode(N, 2)>>, 2)>>, 2) >>

\* f = [ $a, $b, print(a, b) ] / f(print(), "s") / f(f, print): arguments of
\* every kind, Nil (the result of print()) among them.
Src_ArgKinds ==
    << AssignNode(Name_f,
         BlockNode(<<Name_a, Name_b>>,
           <<PrintCall(<<VarNode(Name_a, 1), VarNode(Name_b, 1)>>, 1)>>, 1), 1),
       CallNode(VarNode(Name_f, 2), <<PrintCall(<<>>, 2), StrNode(<<"s">>, 2)>>, 2),
       CallNode(VarNode(Name_f, 3),
                <<VarNode(Name_f, 3), VarNode(Name_print, 3)>>, 3) >>

\* f = [ $a, a ] / print(f(1, 2, 3)): more arguments than slots.
Src_ExcessArgs ==
    << AssignNode(Name_f, BlockNode(<<Name_a>>, <<VarNode(Name_a, 1)>>, 1), 1),
       PrintCall(<<CallNode(VarNode(Name_f, 2),
                 <<IntNode(1, 2), IntNode(2, 2), IntNode(3, 2)>>, 2)>>, 2) >>

\* x = A op B / print(x), for an operator and two small integers.
Src_IntOp(sym, A, B) ==
    << AssignNode(Name_x, BinOpNode(Op(sym), IntNode(A, 1), IntNode(B, 1), 1), 1),
       PrintCall(<<VarNode(Name_x, 2)>>, 2) >>

\* The arguments of the calls of print nested in one another: a number, or
\* a call of print on one or two numbers.
PrintsOf(nums) ==
    {IntNode(n, 1) : n \in nums}
        \cup {PrintCall(<<IntNode(n, 1)>>, 1) : n \in nums}
        \cup {PrintCall(<<IntNode(n, 1), IntNode(m, 1)>>, 1) : n \in nums, m \in nums}

\* print(s, t) for s made of 1 and 2 and t made of 3 and 4, such as
\* print(print(1, 2), print(4)).
Src_NestedPrints(s, t) == << PrintCall(<<s, t>>, 1) >>

NestedPrints ==
    {Src_NestedPrints(s, t) : s \in PrintsOf({1, 2}), t \in PrintsOf({3, 4}) \ {IntNode(4, 1)}}

\* f = [ print("c"), [ $a, $b, print("b") ] ] / f()(print("x"), print("y")):
\* the callee is itself a call that prints.
Src_CalleeFirst ==
    << AssignNode(Name_f,
         BlockNode(<<>>,
           <<PrintCall(<<StrNode(<<"c">>, 1)>>, 1),
             BlockNode(<<Name_a, Name_b>>,
               <<PrintCall(<<StrNode(<<"b">>, 1)>>, 1)>>, 1)>>, 1), 1),
       CallNode(CallNode(VarNode(Name_f, 2), <<>>, 2),
                <<PrintCall(<<StrNode(<<"x">>, 2)>>, 2),
                  PrintCall(<<StrNode(<<"y">>, 2)>>, 2)>>, 2) >>

\* print(y) / print(1): y is not defined.
Src_UndefinedGlobal ==
    << PrintCall(<<VarNode(Name_y, 1)>>, 1), PrintCall(<<IntNode(1, 2)>>, 2) >>

\* print(1, / y, / 2): a call written over three lines; y is not defined.
Src_MultiLine ==
    << CallNode(VarNode(Name_print, 1),
                <<IntNode(1, 1), VarNode(Name_y, 2), IntNode(2, 3)>>, 1) >>

\* f = [ $n, g = [ $k, if (k == 0) then [0] else [ g(k - 1) ] ]  g(n) ]
\* print(f(N)): a block that names itself inside another block.
Src_InnerRec(N) ==
    << AssignNode(Name_f,
         BlockNode(<<Name_n>>,
           <<AssignNode(Name_g,
               BlockNode(<<Name_k>>,
                 <<IfNode(BinOpNode(Op("=="), VarNode(Name_k, 1), IntNode(0, 1), 1),
                          BlockNode(<<>>, <<IntNode(0, 1)>>, 1),
                          BlockNode(<<>>,
                            <<CallNode(VarNode(Name_g, 1),
                                <<BinOpNode(Op("-"), VarNode(Name_k, 1),
                                            IntNode(1, 1), 1)>>, 1)>>, 1), 1)>>, 1), 1),
             CallNode(VarNode(Name_g, 1), <<VarNode(Name_n, 1)>>, 1)>>, 1), 1),
       PrintCall(<<CallNode(VarNode(Name_f, 2), <<IntNode(N, 2)>>, 2)>>, 2) >>

\* f = [ c = 0  g = [ c = c + 1 ]  g()  g()  c ] / print(f()): a store to
\* a local of the enclosing block.
Src_Counter ==
    << AssignNode(Name_f,
         BlockNode(<<>>,
           <<AssignNode(Name_c, IntNode(0, 1), 1),
             AssignNode(Name_g,
               BlockNode(<<>>,
                 <<AssignNode(Name_c,
                     BinOpNode(Op("+"), VarNode(Name_c, 1), IntNode(1, 1), 1), 1)>>, 1), 1),
             CallNode(VarNode(Name_g, 1), <<>>, 1),
             CallNode(VarNode(Name_g, 1), <<>>, 1),
             VarNode(Name_c, 1)>>, 1), 1),
       PrintCall(<<CallNode(VarNode(Name_f, 2), <<>>, 2)>>, 2) >>

\* f = [ c = 0, [ c = c + 1 ] ] / a = f() / b = f() / print(a(), a(), b()):
\* two activations of f, each with its own c.
Src_TwoCounters ==
    << AssignNode(Name_f,
         BlockNode(<<>>,
           <<AssignNode(Name_c, IntNode(0, 1), 1),
             BlockNode(<<>>,
               <<AssignNode(Name_c,
                   BinOpNode(Op("+"), VarNode(Name_c, 1), IntNode(1, 1), 1), 1)>>, 1)>>, 1), 1),
       AssignNode(Name_a, CallNode(VarNode(Name_f, 2), <<>>, 2), 2),
       AssignNode(Name_b, CallNode(VarNode(Name_f, 3), <<>>, 3), 3),
       PrintCall(<<CallNode(VarNode(Name_a, 4), <<>>, 4),
                   CallNode(VarNode(Name_a, 4), <<>>, 4),
                   CallNode(VarNode(Name_b, 4), <<>>, 4)>>, 4) >>

\* add_n = [ $n, [ $x, x + n ] ] / a = add_n(5) / b = add_n(10) /
\* print(a(1), b(1), a(1))
Src_TwoAdders ==
    << AssignNode(Name_add_n,
         BlockNode(<<Name_n>>,
           <<BlockNode(<<Name_x>>,
               <<BinOpNode(Op("+"), VarNode(Name_x, 1), VarNode(Name_n, 1), 1)>>, 1)>>, 1), 1),
       AssignNode(Name_a, CallNode(VarNode(Name_add_n, 2), <<IntNode(5, 2)>>, 2), 2),
       AssignNode(Name_b, CallNode(VarNode(Name_add_n, 3), <<IntNode(10, 3)>>, 3), 3),
       PrintCall(<<CallNode(VarNode(Name_a, 4), <<IntNode(1, 4)>>, 4),
                   CallNode(VarNode(Name_b, 4), <<IntNode(1, 4)>>, 4),
                   CallNode(VarNode(Name_a, 4), <<IntNode(1, 4)>>, 4)>>, 4) >>

\* f = [ c = 0, g = [ c = c + 1 ], k = [ c ], g(), g(), print(k(), c) ] /
\* f(): two closures made in one activation, one stores c, one loads it.
Src_SharedEnv ==
    << AssignNode(Name_f,
         BlockNode(<<>>,
           <<AssignNode(Name_c, IntNode(0, 1), 1),
             AssignNode(Name_g,
               BlockNode(<<>>,
                 <<AssignNode(Name_c,
                     BinOpNode(Op("+"), VarNode(Name_c, 1), IntNode(1, 1), 1), 1)>>, 1), 1),
             AssignNode(Name_k, BlockNode(<<>>, <<VarNode(Name_c, 1)>>, 1), 1),
             CallNode(VarNode(Name_g, 1), <<>>, 1),
             CallNode(VarNode(Name_g, 1), <<>>, 1),
             PrintCall(<<CallNode(VarNode(Name_k, 1), <<>>, 1), VarNode(Name_c, 1)>>, 1)>>, 1), 1),
       CallNode(VarNode(Name_f, 2), <<>>, 2) >>

\* x = 5 / f = [ x = x + 1  x ] / print(f(), x): the right-hand side reads
\* the global x before the assignment declares a local x.
Src_ShadowRhs ==
    << AssignNode(Name_x, IntNode(5, 1), 1),
       AssignNode(Name_f,
         BlockNode(<<>>,
           <<AssignNode(Name_x,
               BinOpNode(Op("+"), VarNode(Name_x, 2), IntNode(1, 2), 2), 2),
             VarNode(Name_x, 2)>>, 2), 2),
       PrintCall(<<CallNode(VarNode(Name_f, 3), <<>>, 3), VarNode(Name_x, 3)>>, 3) >>

\* x = 1 / f = [ x = 2  x ] / print(f(), x)
Src_Shadow ==
    << AssignNode(Name_x, IntNode(1, 1), 1),
       AssignNode(Name_f,
         BlockNode(<<>>, <<AssignNode(Name_x, IntNode(2, 2), 2), VarNode(Name_x, 2)>>, 2), 2),
       PrintCall(<<CallNode(VarNode(Name_f, 3), <<>>, 3), VarNode(Name_x, 3)>>, 3) >>

\* x = 5 / x(1) / print(x): the call target is an integer.
Src_NotCallable ==
    << AssignNode(Name_x, IntNode(5, 1), 1),
       CallNode(VarNode(Name_x, 2), <<IntNode(1, 2)>>, 2),
       PrintCall(<<VarNode(Name_x, 3)>>, 3) >>

\* print(1 + "a") / print(3 - "Hello") / print("Hello" - 2)
Src_Strings ==
    << PrintCall(<<BinOpNode(Op("-"), IntNode(3, 1),
                 StrNode(<<"H", "e", "l", "l", "o">>, 1), 1)>>, 1),
       PrintCall(<<BinOpNode(Op("-"), StrNode(<<"H", "e", "l", "l", "o">>, 2),
                 IntNode(2, 2), 2)>>, 2),
       PrintCall(<<BinOpNode(Op("+"), IntNode(1, 3), StrNode(<<"a">>, 3), 3)>>, 3),
       PrintCall(<<IntNode(4, 4)>>, 4) >>

\* f = [ $n, 1 + f(n) ] / f(0): recursion that is not a tail call and never
\* ends; it fills the operand stack.
Src_Overflow ==
    << AssignNode(Name_f,
         BlockNode(<<Name_n>>,
           <<BinOpNode(Op("+"), IntNode(1, 1),
               CallNode(VarNode(Name_f, 1), <<VarNode(Name_n, 1)>>, 1), 1)>>, 1), 1),
       CallNode(VarNode(Name_f, 2), <<IntNode(0, 2)>>, 2) >>

\* The empty source.
Src_Empty == <<>>

\* f = [ 5 ] / print(if (1) then f else 0) / print(if (0) then 1 else "s")
\* / print(if (1) then print() else 0) / if (1) then print else 0: branches
\* without brackets whose values are a closure, a string, null and a native.
Src_IfValues ==
    << AssignNode(Name_f, BlockNode(<<>>, <<IntNode(5, 1)>>, 1), 1),
       PrintCall(<<IfNode(IntNode(1, 2), VarNode(Name_f, 2), IntNode(0, 2), 2)>>, 2),
       PrintCall(<<IfNode(IntNode(0, 3), IntNode(1, 3), StrNode(<<"s">>, 3), 3)>>, 3),
       PrintCall(<<IfNode(IntNode(1, 4), PrintCall(<<>>, 4), IntNode(0, 4), 4)>>, 4),
       IfNode(IntNode(1, 5), VarNode(Name_print, 5), IntNode(0, 5), 5) >>

\* print("a") / print = 7: the program replaces the native it has called.
Src_RebindPrint ==
    << PrintCall(<<StrNode(<<"a">>, 1)>>, 1),
       AssignNode(Name_print, IntNode(7, 2), 2) >>

Programs ==
    {Src_Arith, Src_Curry, Src_MissingArg, Src_ArgKinds, Src_ExcessArgs,
     Src_UndefinedGlobal, Src_Shadow, Src_NotCallable, Src_Strings,
     Src_Overflow, Src_Empty, Src_RebindPrint, Src_IfValues, Src_MultiLine, Src_Counter, Src_ShadowRhs,
     Src_CalleeFirst, Src_TwoCounters, Src_TwoAdders, Src_SharedEnv}
    \cup NestedPrints
    \cup {Src_InnerRec(N) : N \in 0..1}
    \cup {Src_Fact(N) : N \in 0..MaxN}
    \cup {Src_LoopBracketed(N) : N \in 0..MaxN}
    \cup {Src_LoopBranch(N) : N \in 0..MaxN}
    \cup {Src_TailToOther(N) : N \in 0..MaxN}
    \cup {Src_EmptyBlock(N) : N \in 0..2}
    \cup {Src_UnsetLocal(N) : N \in 0..1}
    \cup {Src_IntOp(sym, A, B) : sym \in {"/", "%", "*", "<"}, A \in {-7, 0, 7}, B \in {-2, 0, 2}}

\* ---------------------------------------------------------- source texts
\* Sources the model takes as text, through tokenize and Parser.parse.
\* fact = [ $n, if (n < 2) then [1] else [ n * fact(n-1) ] ] / print(fact(5))
Text_Scenario2 ==
    <<"f", "a", "c", "t", " ", "=", " ", "[", " ", "$", "n", ",", " ", "i",
      "f", " ", "(", "n", " ", "<", " ", "2", ")", " ", "t", "h", "e", "n",
      " ", "[", "1", "]", " ", "e", "l", "s", "e", " ", "[", " ", "n", " ",
      "*", " ", "f", "a", "c", "t", "(", "n", "-", "1", ")", " ", "]", " ",
      "]", "\n", "p", "r", "i", "n", "t", "(", "f", "a", "c", "t", "(", "5",
      ")", ")">>

\* print(valueOf) / print(toString()) / print(y)
Text_InheritedNames ==
    <<"p", "r", "i", "n", "t", "(", "v", "a", "l", "u", "e", "O", "f", ")", "\n", "p", "r", "i", "n", "t", "(", "t", "o", "S", "t", "r", "i", "n", "g", "(", ")", ")", "\n", "p", "r", "i", "n", "t", "(", "y", ")">>

\* a = 5 / a-1
Text_MinusTop ==
    <<"a", " ", "=", " ", "5", "\n", "a", "-", "1">>

\* a = 5 / x = a-1 / print(x)
Text_MinusRhs ==
    <<"a", " ", "=", " ", "5", "\n", "x", " ", "=", " ", "a", "-", "1", "\n",
      "p", "r", "i", "n", "t", "(", "x", ")">>

\* a = 5 / x = (a-1)
Text_MinusParen ==
    <<"a", " ", "=", " ", "5", "\n", "x", " ", "=", " ", "(", "a", "-", "1",
      ")">>

\* a = 5 / print(a-1)
Text_MinusArg ==
    <<"a", " ", "=", " ", "5", "\n", "p", "r", "i", "n", "t", "(", "a", "-",
      "1", ")">>

\* f = [ $a, a-1 ] / print(f(5))
Text_MinusBody ==
    <<"f", " ", "=", " ", "[", " ", "$", "a", ",", " ", "a", "-", "1", " ",
      "]", "\n", "p", "r", "i", "n", "t", "(", "f", "(", "5", ")", ")">>

\* 1-1
Text_DigitsTop == <<"1", "-", "1">>

\* x = 1-1
Text_DigitsRhs == <<"x", " ", "=", " ", "1", "-", "1">>

\* f = [ 1-1 ]
Text_DigitsBody == <<"f", " ", "=", " ", "[", " ", "1", "-", "1", " ", "]">>

\* print(1-1)
Text_DigitsArg == <<"p", "r", "i", "n", "t", "(", "1", "-", "1", ")">>

\* a = 5 / print(a - 1)
Text_MinusSpaced ==
    <<"a", " ", "=", " ", "5", "\n", "p", "r", "i", "n", "t", "(", "a", " ",
      "-", " ", "1", ")">>

\* # note / x = "a b"  print(x)
Text_Comment ==
    <<"#", " ", "n", "o", "t", "e", "\n", "x", " ", "=", " ", "\"", "a", " ",
      "b", "\"", " ", " ", "p", "r", "i", "n", "t", "(", "x", ")">>

\* x = 1 / y = x @ 2: a character no token starts with
Text_BadChar ==
    <<"x", " ", "=", " ", "1", "\n", "y", " ", "=", " ", "x", " ", "@", " ",
      "2">>

\* # nothing here: a text without a token
Text_OnlyComment ==
    <<"#", " ", "n", "o", "t", "h", "i", "n", "g", " ", "h", "e", "r", "e">>

\* The operators of the OP rule of TOKEN_SPECS.
ChainOps == {"==", "+", "-", "*", "/", "%", "<", ">"}

\* print(7 op1 3 op2 2)
Text_Chain(op1, op2) ==
    <<"p", "r", "i", "n", "t", "(", "7", " ">> \o Op(op1) \o <<" ", "3", " ">>
        \o Op(op2) \o <<" ", "2", ")">>

\* a = 7 / b = 3 / c = 2 / print(a+b*c)
Text_ChainOfNames ==
    <<"a", " ", "=", " ", "7", "\n", "b", " ", "=", " ", "3", "\n",
      "c", " ", "=", " ", "2", "\n",
      "p", "r", "i", "n", "t", "(", "a", "+", "b", "*", "c", ")">>

Sources ==
    {Text_Chain(op1, op2) : op1 \in ChainOps, op2 \in ChainOps} \cup
    {Text_ChainOfNames} \cup
    {Text_InheritedNames, Text_OnlyComment, Text_Scenario2, Text_MinusTop, Text_MinusRhs, Text_MinusParen, Text_MinusArg,
     Text_MinusBody, Text_MinusSpaced, Text_Comment, Text_BadChar,
     Text_DigitsTop, Text_DigitsRhs, Text_DigitsBody, Text_DigitsArg}

\* ----------------------------------------------------------------- actions
NoOutcome == [kind |-> "none"]

Returned(val) == [kind |-> "returned", val |-> val]

Threw(msg, line) == [kind |-> "threw", msg |-> msg, line |-> line]

\* No second VM has been made yet.
NoRun == [ran |-> FALSE]

NoCall == [op |-> "none", env |-> 0, key |-> <<>>, val |-> UndefV]

\* The global environment a VM is given when it was kept from the VM before.
GlobalEnvKept(previous) == previous

\* const globalEnv = createGlobalEnv(onPrint): the global environment of a
\* run is made new, whatever the one before holds.
GlobalEnvOfRun(previous) == createGlobalEnv

Init ==
    /\ \/ sourceText = <<>> /\ ast \in Programs /\ pc = "source"
       \/ sourceText \in Sources /\ ast = <<>> /\ pc = "text"
    /\ code = <<>> /\ pool = <<>> /\ sourceMap = <<>>
    /\ ip = 0 /\ stack = <<>> /\ callStack = <<>>
    /\ envs = <<>> /\ env = 0
    /\ globals = createGlobalEnv
    /\ isRunning = FALSE /\ made = 0 /\ output = <<>>
    /\ outcome = NoOutcome
    /\ acts = <<>> /\ faulted = FALSE /\ envBlock = <<>>
    /\ driven = "fresh" /\ firstRun = NoRun
    /\ chain = <<>> /\ called = NoCall

\* err.message: the message of a tokenize or parser Error, and the
\* `[Line ${line}] ${e.message}` of the Error VM.run throws. The fixed texts
\* are kept as one element each.
Message(e) ==
    IF e.line = <<>> THEN <<e.msg>>
    ELSE <<"[Line ">> \o e.line \o <<"] ", e.msg>>

\* onPrint(`[RUNTIME ERROR] ${err.message}`) of the catch block of run
\* (interpreter.ts:308-311).
ErrorLine(e) == <<"[RUNTIME ERROR] ">> \o Message(e)

\* The sink after the Error e is caught: by the catch block of run when the
\* call is made by run (byRun), which writes a line; by a caller of the
\* parser or of VM.run that writes nothing to the sink (App.tsx:217-220 and
\* 243-245 write to the panel of the IDE).
Caught(byRun, sink, e) == IF byRun THEN Append(sink, ErrorLine(e)) ELSE sink

\* tokenize(code) and new Parser(tokens).parse() (App.tsx:229-230,
\* interpreter.ts:297-299): the statements, or the Error of the first
\* character or token that does not fit.
ParseCaught(byRun) ==
    /\ pc = "text"
    /\ LET Reject(e) ==
               /\ pc' = "rejected" /\ outcome' = e
               /\ output' = Caught(byRun, output, e)
               /\ UNCHANGED ast
           AfterParse(parsed) ==
               IF parsed.err # "none" THEN Reject(Threw(parsed.err, <<>>))
               ELSE /\ pc' = "source" /\ ast' = parsed.ast
                    /\ UNCHANGED <<outcome, output>>
           AfterTokenize(lexed) ==
               IF lexed.err # "none" THEN Reject(Threw(lexed.err, <<>>))
               ELSE AfterParse(parse(lexed.tokens))
       IN  AfterTokenize(tokenize(sourceText))
    /\ UNCHANGED <<sourceText, code, pool, sourceMap, ip, stack, callStack, envs, env,
                   globals, isRunning, made, hist, runs, lib>>

Parse == ParseCaught(FALSE)

\* this.code = program.code; this.pool = program.pool; this.sourceMap =
\* program.sourceMap of the constructor of the VM (part_000:40-43).
Loaded(program) ==
    /\ code' = program.code
    /\ pool' = program.pool
    /\ sourceMap' = program.sourceMap

\* compiler.compile(ast) and new VM(program, createGlobalEnv(onPrint),
\* onPrint) (interpreter.ts:294-304, App.tsx:230-238): the VM starts at
\* address 0 with an empty stack and an empty root environment.
Load ==
    /\ pc = "source"
    /\ Loaded(compile(ast))
    /\ ip' = 0 /\ stack' = <<>> /\ callStack' = <<>>
    /\ envs' = << [values |-> <<>>, parent |-> 0] >>
    /\ env' = 1
    /\ globals' = createGlobalEnv
    /\ isRunning' = TRUE /\ made' = 0 /\ output' = <<>>
    /\ pc' = "idle"
    /\ outcome' = NoOutcome
    /\ envBlock' = <<-1>>
    /\ UNCHANGED <<sourceText, ast, acts, faulted, runs, lib>>

\* The VM's fields after an instruction.
CommitVM(m) ==
    /\ ip' = m.ip /\ stack' = m.stack /\ callStack' = m.callStack
    /\ envs' = m.envs /\ env' = m.env /\ globals' = m.globals
    /\ made' = m.made

\* The VM's fields after an instruction whose lines do not reach the sink.
CommitSilent(m) == CommitVM(m) /\ output' = output

Commit(m) == CommitVM(m) /\ output' = m.output

\* The instruction at ip and, for the four call instructions, its argument
\* count, callee and arguments as they lie on the stack before it executes.
OpAtIp == CodeAt(ip)

ArgcAtIp == IF OpAtIp \in {CALL, TAIL_CALL} THEN CodeAt(ip + 1) ELSE 0

CalleeAtIp ==
    IF Len(stack) >= ArgcAtIp + 1 THEN stack[Len(stack) - ArgcAtIp] ELSE UndefV

ArgsAtIp == SubSeq(stack, Len(stack) - ArgcAtIp + 1, Len(stack))

IsCallOp(op) == op \in {CALL, TAIL_CALL, CALL_IF_CLOSURE, TAIL_CALL_IF_CLOSURE}

IsTailOp(op) == op \in {TAIL_CALL, TAIL_CALL_IF_CLOSURE}

\* The last frame of a call stack; a marker when it is empty.
TopFrame(cs) == IF Len(cs) > 0 THEN cs[Len(cs)] ELSE [returnAddr |-> -1, env |-> 0]

\* The history of activations after an instruction that led to machine m:
\* a frame push records the operand stack of its CALL, its address, the
\* active environment and the depth of the call stack; a tail call of a
\* closure marks the running activation and notes the frame then on top, a
\* frame pop drops the record.
NextActs(m) ==
    IF Len(m.callStack) > Len(callStack)
    THEN Append(acts, [tail |-> FALSE, height |-> Len(stack), argc |-> ArgcAtIp,
                       under |-> SubSeq(stack, 1, Len(stack) - ArgcAtIp - 1),
                       top |-> TopFrame(m.callStack),
                       at |-> ip, env |-> env, depth |-> Len(callStack)])
    ELSE IF Len(m.callStack) < Len(callStack)
    THEN SubSeq(acts, 1, Len(acts) - 1)
    ELSE IF IsTailOp(OpAtIp) /\ Len(m.envs) > Len(envs) /\ Len(acts) > 0
    THEN [acts EXCEPT ![Len(acts)].tail = TRUE, ![Len(acts)].top = TopFrame(callStack)]
    ELSE acts

\* The opcode found at ip once the instruction has executed.
StepOpAfter(before, after) ==
    IF after.ip < Len(code) THEN CodeAt(after.ip) ELSE HALT

\* The history of environments after an instruction that led to machine m:
\* a closure call notes the entry address of the block it activates.
NextEnvBlock(m) ==
    IF Len(m.envs) > Len(envs) THEN Append(envBlock, m.ip) ELSE envBlock

\* const op = this.code[this.ip], read by step before it executes
\* (part_000:113): the opcode step returns.
StepOp(before, after) == CodeAt(before.ip)

\* VM.step: null on a halted VM or past the end of the code, else one
\* instruction; an Error it throws propagates to the caller as it is.
Step ==
    /\ pc = "idle"
    /\ IF ~isRunning \/ ip >= Len(code)
       THEN /\ isRunning' = FALSE
            /\ outcome' = Returned(NilV)
            /\ UNCHANGED <<ip, stack, callStack, envs, env, globals, made, output>>
            /\ UNCHANGED hist
       ELSE LET m == executeInstruction(Machine) IN
            /\ Commit(m)
            /\ isRunning' = m.isRunning
            /\ outcome' = IF m.err = "none" THEN Returned(IntV(StepOp(Machine, m)))
                          ELSE Threw(m.err, <<>>)
            /\ acts' = NextActs(m)
            /\ faulted' = (faulted \/ m.err # "none")
            /\ envBlock' = NextEnvBlock(m)
    /\ driven' = IF driven \in {"fresh", "step"} THEN "step" ELSE "mixed"
    /\ UNCHANGED <<prog, pc, firstRun, lib>>

\* VM.run is entered: the try block, before the first test of the loop.
RunEnter ==
    /\ pc = "idle"
    /\ pc' = "run"
    /\ driven' = IF driven = "fresh" THEN "run" ELSE "mixed"
    /\ UNCHANGED <<prog, mach, outcome, hist, firstRun, lib>>

\* `${line}` of the catch block: sourceMap[errorIp] || '?'.
LineText(errorIp) ==
    IF errorIp < Len(sourceMap) /\ At(sourceMap, errorIp) # 0
    THEN IntToStr(At(sourceMap, errorIp))
    ELSE <<"?">>

\* The index of the instruction ip points at when the Error is caught.
ErrorIpAtIp(m) == Max(0, m.ip)

\* The index VM.run looks the line up at (part_000:132).
ErrorIp(m) == Max(0, m.ip - 1)

\* One iteration of the loop of VM.run, with its catch block: the Error is
\* rethrown with the line of sourceMap[max(0, ip - 1)].
IterCaught(byRun) ==
    /\ pc = "run"
    /\ isRunning /\ ip < Len(code)
    /\ LET m == executeInstruction(Machine) IN
       /\ CommitVM(m)
       /\ acts' = NextActs(m)
       /\ faulted' = (faulted \/ m.err # "none")
       /\ envBlock' = NextEnvBlock(m)
       /\ IF m.err = "none"
          THEN /\ isRunning' = m.isRunning
               /\ output' = m.output
               /\ UNCHANGED <<pc, outcome>>
          ELSE /\ isRunning' = FALSE
               /\ outcome' = Threw(m.err, LineText(ErrorIp(m)))
               /\ output' = Caught(byRun, m.output, Threw(m.err, LineText(ErrorIp(m))))
               /\ pc' = "idle"
    /\ UNCHANGED <<prog, runs, lib>>

RunIter == IterCaught(FALSE)

\* A return value that is null whatever the stack holds.
AlwaysNull(stk) == NilV

\* this.sp > 0 ? this.stack[this.sp - 1] : null (part_000:123).
TopOrNull(stk) == IF Len(stk) > 0 THEN stk[Len(stk)] ELSE NilV

\* VM.run leaves its loop and returns the top of the stack, or null.
RunReturn ==
    /\ pc = "run"
    /\ ~(isRunning /\ ip < Len(code))
    /\ outcome' = Returned(TopOrNull(stack))
    /\ pc' = "idle"
    /\ UNCHANGED <<prog, mach, hist, runs, lib>>

\* The same program is run again: new VM(program, createGlobalEnv(onPrint),
\* onPrint) after the run() of the first VM has ended. The lines the sink
\* has received are counted from here anew.
Rerun ==
    /\ pc = "idle" /\ driven = "run" /\ firstRun = NoRun
    /\ firstRun' = [ran |-> TRUE, output |-> output, outcome |-> outcome,
                    stack |-> stack, ip |-> ip, faulted |-> faulted,
                    globals |-> globals]
    /\ ip' = 0 /\ stack' = <<>> /\ callStack' = <<>>
    /\ envs' = << [values |-> <<>>, parent |-> 0] >>
    /\ env' = 1
    /\ globals' = GlobalEnvOfRun(globals)
    /\ isRunning' = TRUE /\ made' = 0 /\ output' = <<>>
    /\ outcome' = NoOutcome
    /\ acts' = <<>> /\ faulted' = FALSE /\ envBlock' = <<-1>>
    /\ driven' = "fresh"
    /\ UNCHANGED <<prog, pc, lib>>

Next == Parse \/ Load \/ Step \/ RunEnter \/ RunIter \/ RunReturn \/ Rerun

Spec == Init /\ [][Next]_vars

\* ------------------------------------------- interpreter.ts as a library
\* run(code, onPrint), tokenize and parse (interpreter.ts:296-299), with the
\* catch block of run.
EntryParse == ParseCaught(TRUE)

\* run(code, onPrint) calls vm.run() once (interpreter.ts:304).
EntryEnter == driven = "fresh" /\ RunEnter

\* run(code, onPrint), one iteration of the loop of vm.run()
\* (interpreter.ts:304), with the catch blocks of VM.run and of run.
EntryIter == IterCaught(TRUE)

\* The names and values given to the calls of Env.get and Env.set.
EnvKeys == {Name_x, Name_toString}

EnvVals == {IntV(1), IntV(2)}

\* The number of Env objects made.
MaxEnvs == 3

\* e.child() (interpreter.ts:219-221).
EnvChild ==
    /\ pc = "env" /\ Len(chain) < MaxEnvs
    /\ \E e \in 1..Len(chain) :
         /\ chain' = Env_child(chain, e)
         /\ called' = [op |-> "child", env |-> e, key |-> <<>>, val |-> UndefV]
    /\ UNCHANGED <<prog, mach, pc, outcome, hist, runs>>

\* e.set(key, val) (interpreter.ts:207-217).
EnvSetCall ==
    /\ pc = "env"
    /\ \E e \in 1..Len(chain), key \in EnvKeys, val \in EnvVals :
         /\ chain' = Env_set(chain, e, key, val)
         /\ called' = [op |-> "set", env |-> e, key |-> key, val |-> val]
    /\ UNCHANGED <<prog, mach, pc, outcome, hist, runs>>

\* e.get(key) (interpreter.ts:198-205): the value, or the Error.
EnvGetCall ==
    /\ pc = "env"
    /\ \E e \in 1..Len(chain), key \in EnvKeys :
         LET r == Env_get(chain, e, key) IN
         /\ called' = [op |-> "get", env |-> e, key |-> key, val |-> r.val]
         /\ outcome' = IF r.err = "none" THEN Returned(r.val) ELSE Threw(r.err, <<>>)
    /\ UNCHANGED <<prog, mach, pc, hist, runs, chain>>

\* Either run(code, onPrint) is about to be called on a text, or
\* createGlobalEnv has made an Env (interpreter.ts:224-238) whose methods are
\* then called.
CoreInit ==
    /\ \/ sourceText \in Sources /\ pc = "text" /\ chain = <<>> /\ called = NoCall
       \/ /\ sourceText = <<>> /\ pc = "env"
          /\ chain = << [data |-> createGlobalEnv, parent |-> 0] >>
          /\ called = [op |-> "new", env |-> 0, key |-> <<>>, val |-> UndefV]
    /\ ast = <<>>
    /\ code = <<>> /\ pool = <<>> /\ sourceMap = <<>>
    /\ ip = 0 /\ stack = <<>> /\ callStack = <<>>
    /\ envs = <<>> /\ env = 0
    /\ globals = createGlobalEnv
    /\ isRunning = FALSE /\ made = 0 /\ output = <<>>
    /\ outcome = NoOutcome
    /\ acts = <<>> /\ faulted = FALSE /\ envBlock = <<>>
    /\ driven = "fresh" /\ firstRun = NoRun

CoreNext ==
    EntryParse \/ Load \/ EntryEnter \/ EntryIter \/ RunReturn
        \/ EnvChild \/ EnvSetCall \/ EnvGetCall

CoreSpec == CoreInit /\ [][CoreNext]_vars

\* ------------------------------------------------- instruction layout
\* disassemble with MAKE_BLOCK read as [Op, PoolIndex(Params), Address]: the
\* localsCount operand is left in the code.
OperandCountShortBlock(op) ==
    CASE op \in {PUSH_CONST, LOAD_GLOBAL, STORE_GLOBAL, BINARY_OP} -> 1
      [] op \in {LOAD_LOCAL, STORE_LOCAL} -> 1
      [] op \in {LOAD_UPVALUE, STORE_UPVALUE} -> 2
      [] op \in {JUMP, JUMP_IF_F} -> 1
      [] op = MAKE_BLOCK -> 2
      [] op \in {CALL, TAIL_CALL} -> 1
      [] OTHER -> 0

\* The number of inline operands disassemble reads after each opcode
\* (interpreter.ts:252-287).
OperandCount(op) ==
    CASE op \in {PUSH_CONST, LOAD_GLOBAL, STORE_GLOBAL, BINARY_OP} -> 1
      [] op \in {LOAD_LOCAL, STORE_LOCAL} -> 1
      [] op \in {LOAD_UPVALUE, STORE_UPVALUE} -> 2
      [] op \in {JUMP, JUMP_IF_F} -> 1
      [] op = MAKE_BLOCK -> 3
      [] op \in {CALL, TAIL_CALL} -> 1
      [] OTHER -> 0

RECURSIVE disassembleFrom(_, _)
\* The while loop of disassemble from index i on: the opcodes with their
\* addresses, in code order.
disassembleFrom(cd, i) ==
    IF i >= Len(cd) THEN <<>>
    ELSE <<[op |-> At(cd, i), ip |-> i]>>
         \o disassembleFrom(cd, i + 1 + OperandCount(At(cd, i)))

disassemble(cd) == disassembleFrom(cd, 0)

\* ------------------------------------------------------- kinds of step
\* A call of step() that executes an instruction.
StepExec == pc = "idle" /\ pc' = "idle" /\ isRunning /\ ip < Len(code)

\* An iteration of the loop of run().
RunExec == pc = "run" /\ isRunning /\ ip < Len(code)

Executes == StepExec \/ RunExec

\* The instruction executed by this step raised an Error.
Faults == (StepExec /\ outcome'.kind = "threw") \/ (RunExec /\ pc' = "idle")

CallsClosure == Executes /\ IsCallOp(OpAtIp) /\ CalleeAtIp.t = "Closure"

\* ---------------------------------------------------------------- C1
\* C1: when a closure called by CALL n returns, the operand stack is the
\* stack from before the CALL with the callee and its n arguments replaced
\* by exactly one value: its height is the height before the CALL minus n,
\* and everything under the result is as it was under the callee.
C1_CallLeavesOneResult ==
    [][(Executes /\ OpAtIp = RETURN /\ Len(callStack') < Len(callStack))
         => LET a == acts[Len(acts)] IN
            /\ Len(stack') = a.height - a.argc
            /\ SubSeq(stack', 1, Len(stack') - 1) = a.under]_vars

\* ---------------------------------------------------------------- C2
C2Step ==
    /\ CallsClosure =>
         IF IsTailOp(OpAtIp)
         THEN callStack' = callStack
         ELSE callStack' = Append(callStack,
                  [returnAddr |-> ip + 1 + OperandCount(OpAtIp), env |-> env])
    /\ (Executes /\ OpAtIp = RETURN /\ Len(acts) > 0 /\ acts[Len(acts)].tail)
         => /\ ip' = acts[Len(acts)].top.returnAddr
            /\ env' = acts[Len(acts)].top.env
            /\ callStack' = SubSeq(callStack, 1, Len(callStack) - 1)

\* C2: TAIL_CALL and TAIL_CALL_IF_CLOSURE applied to a closure leave the
\* call stack as it is; CALL and CALL_IF_CLOSURE applied to a closure push
\* exactly one frame, holding the address after the instruction and the
\* current environment; the RETURN of a closure entered by a tail call
\* resumes at the return address of the frame that was on top when the tail
\* call was made, and pops that frame.
C2_TailCallsPushNoFrame == [][C2Step]_vars

\* A closure entered by a tail call, at depth two or more, is about to
\* execute its RETURN under run().
C2_Witness ==
    /\ pc = "run" /\ isRunning /\ OpAtIp = RETURN
    /\ Len(acts) >= 2 /\ acts[Len(acts)].tail

\* ---------------------------------------------------------------- C3
\* The programs of the catalogue whose only recursion is a tail call: the
\* recursive call is the last expression of the block body, inside a
\* bracketed branch or directly as the branch of the final if.
TailRecursivePrograms ==
    {Src_LoopBracketed(N) : N \in 0..MaxN} \cup {Src_LoopBranch(N) : N \in 0..MaxN}

\* The constant the call-stack depth of such a program is held against.
TailDepthBound == 2

\* C3: in a run of a program whose recursion is tail recursion only, the
\* call stack never grows beyond a constant that does not depend on the
\* number of iterations.
C3_TailRecursionDepthBounded ==
    ast \in TailRecursivePrograms => Len(callStack) <= TailDepthBound

\* ---------------------------------------------------------------- C4
RECURSIVE TailPositionCalls(_, _), TailPositionCallsOfBody(_, _), TailPositionCallsOfArgs(_, _)
\* The CALL or TAIL_CALL expected of every Call node under node, in the
\* order of emission, when tail position is: the last body expression of a
\* block, or either branch of an If that is itself in tail position.
TailPositionCalls(node, tail) ==
    CASE node.type = "Assign" -> TailPositionCalls(node.expr, FALSE)
      [] node.type = "BinOp" ->
           TailPositionCalls(node.left, FALSE) \o TailPositionCalls(node.right, FALSE)
      [] node.type = "If" ->
           TailPositionCalls(node.condition, FALSE)
           \o TailPositionCalls(node.thenBranch, tail)
           \o TailPositionCalls(node.elseBranch, tail)
      [] node.type = "Block" -> TailPositionCallsOfBody(node.body, 1)
      [] node.type = "Call" ->
           TailPositionCalls(node.block, FALSE)
           \o TailPositionCallsOfArgs(node.args, 1)
           \o <<IF tail THEN TAIL_CALL ELSE CALL>>
      [] OTHER -> <<>>

TailPositionCallsOfBody(body, i) ==
    IF i > Len(body) THEN <<>>
    ELSE TailPositionCalls(body[i], i = Len(body)) \o TailPositionCallsOfBody(body, i + 1)

TailPositionCallsOfArgs(args, i) ==
    IF i > Len(args) THEN <<>>
    ELSE TailPositionCalls(args[i], FALSE) \o TailPositionCallsOfArgs(args, i + 1)

\* The opcodes CALL and TAIL_CALL of the compiled code, in code order.
EmittedCalls ==
    LET ops == disassemble(code)
        isCall(e) == e.op \in {CALL, TAIL_CALL}
        sel == SelectSeq(ops, isCall)
    IN  [k \in 1..Len(sel) |-> sel[k].op]

\* C4: the compiler emits TAIL_CALL for a Call node exactly when the node
\* is in tail position (top-level statements are never in tail position),
\* and CALL for every other Call node.
C4_TailCallIffTailPosition ==
    pc \in {"idle", "run"} => EmittedCalls = TailPositionCallsOfArgs(ast, 1)

\* ---------------------------------------------------------------- C5
\* C5: when a closure is called with argc arguments, every slot i with
\* argc <= i < localsCount of the new environment holds Int 0.
C5_UnfilledSlotsHoldIntZero ==
    [][CallsClosure
         => \A i \in (ArgcAtIp + 1)..CalleeAtIp.localsCount :
                envs'[env'].values[i] = IntV(0)]_vars

\* ---------------------------------------------------------------- C6
\* C6: when a closure is called with arguments a0..a(n-1), slot i of the
\* new environment is ai, whatever kind of value ai is.
C6_ArgumentsBoundUnchanged ==
    [][CallsClosure
         => \A i \in 1..ArgcAtIp : envs'[env'].values[i] = ArgsAtIp[i]]_vars

\* ---------------------------------------------------------------- C7
\* C7: BINARY_OP with operator / on two integers whose divisor is 0 raises
\* an Error, and leaves the stack without a result: the two operands are
\* popped and nothing is pushed.
C7_DivisionByZeroFaults ==
    [][(Executes /\ OpAtIp = BINARY_OP /\ PoolName(CodeAt(ip + 1)) = Op("/")
          /\ Len(stack) >= 2
          /\ stack[Len(stack) - 1].t = "Int" /\ stack[Len(stack)] = IntV(0))
         => (Faults /\ stack' = SubSeq(stack, 1, Len(stack) - 2))]_vars

\* ---------------------------------------------------------------- C8
\* C8: once a call of step() or run() has raised an Error the VM is halted,
\* and no later call changes ip, the operand stack, the call stack or an
\* environment.
C8_FaultAbortsVM ==
    [][faulted => (~isRunning /\ UNCHANGED <<ip, stack, callStack, envs, env>>)]_vars

\* ---------------------------------------------------------------- C9
\* C9: the line run() attaches to an Error is the text of sourceMap[a],
\* where a is the address of the opcode of the instruction that raised it.
C9_FaultLineIsFaultingInstruction ==
    [][(RunExec /\ Faults)
         => (outcome'.kind = "threw" /\ outcome'.line = IntToStr(At(sourceMap, ip)))]_vars

\* run() has surfaced an Error raised on the second line of a call whose
\* first and third lines hold the instructions before and after.
C9_Witness ==
    /\ ast = Src_MultiLine
    /\ pc = "idle" /\ outcome.kind = "threw" /\ outcome.line = <<"2">>

\* --------------------------------------------------------------- C10
\* The addresses an instruction transfers control to.
TransferTargets ==
    CASE OpAtIp \in {JUMP, JUMP_IF_F} -> {CodeAt(ip + 1)}
      [] IsCallOp(OpAtIp) /\ CalleeAtIp.t = "Closure" -> {CalleeAtIp.entryAddr}
      [] OpAtIp = RETURN /\ Len(callStack) > 0 -> {TopFrame(callStack).returnAddr}
      [] OTHER -> {}

\* C10: a call of step() on a VM that is running with ip inside the code
\* executes the one instruction at ip and returns its opcode; afterwards ip
\* is the address after the instruction's last operand, or the
\* instruction's jump target, closure entry or popped return address.
C10_StepExecutesOneInstruction ==
    [][(StepExec /\ ~Faults)
         => /\ outcome' = Returned(IntV(OpAtIp))
            /\ ip' \in {ip + 1 + OperandCount(OpAtIp)} \cup TransferTargets
            /\ LET m == executeInstruction(Machine) IN
               <<stack', callStack', envs', env', globals', output'>>
                 = <<m.stack, m.callStack, m.envs, m.env, m.globals, m.output>>]_vars

\* step() has returned the opcode RETURN and popped a frame: ip is a
\* return address, not the address after the instruction.
C10_Witness ==
    /\ pc = "idle" /\ outcome = Returned(IntV(RETURN))
    /\ Len(acts) >= 1 /\ isRunning

\* --------------------------------------------------------------- C11
IsStoreOp(op) == op \in {STORE_LOCAL, STORE_UPVALUE, STORE_GLOBAL}

\* The top of the operand stack; undefined when the stack is empty.
TopOfStack == IF Len(stack) > 0 THEN stack[Len(stack)] ELSE UndefV

\* The value the target of the store at ip holds after the step.
StoredAfter ==
    CASE OpAtIp = STORE_LOCAL -> SlotAt(envs'[env].values, CodeAt(ip + 1))
      [] OpAtIp = STORE_UPVALUE ->
           SlotAt(envs'[Walk(envs, env, CodeAt(ip + 2))].values, CodeAt(ip + 1))
      [] OTHER -> globals'[PoolName(CodeAt(ip + 1))]

\* C11: STORE_LOCAL, STORE_UPVALUE and STORE_GLOBAL write the value on top
\* of the stack to their target and leave the operand stack as it is, so
\* the value of the right-hand side is still on top after the store that
\* ends the code of an assignment.
C11_StoreKeepsTop ==
    [][(Executes /\ IsStoreOp(OpAtIp) /\ ~Faults)
         => /\ stack' = stack
            /\ StoredAfter = TopOfStack
            /\ ip' = ip + 1 + OperandCount(OpAtIp)]_vars

\* Inside a block, the STORE_LOCAL that ends g = [block literal] has just
\* executed after its MAKE_BLOCK: the closure is in the slot and still on
\* top of the stack.
C11_Witness ==
    /\ Len(callStack) > 0 /\ ip >= 6
    /\ CodeAt(ip - 2) = STORE_LOCAL /\ CodeAt(ip - 6) = MAKE_BLOCK
    /\ TopOfStack.t = "Closure"
    /\ SlotAt(envs[env].values, CodeAt(ip - 1)) = TopOfStack

\* --------------------------------------------------------------- C12
\* The block bodies of the compiled code: for every MAKE_BLOCK at address a
\* with entry address e, the addresses e..a-1.
BlockBodies ==
    LET instrs == disassemble(code) IN
    {[entry |-> At(code, r.ip + 2), make |-> r.ip,
      localsCount |-> At(code, r.ip + 3)] :
        r \in {x \in {instrs[k] : k \in 1..Len(instrs)} : x.op = MAKE_BLOCK}}

InBody(a, b) == b.entry <= a /\ a < b.make

\* The addresses of the instructions with opcode op.
AddressesOf(op) ==
    LET instrs == disassemble(code) IN
    {instrs[k].ip : k \in {j \in 1..Len(instrs) : instrs[j].op = op}}

C12Step ==
    /\ \A a \in AddressesOf(STORE_GLOBAL) : \A b \in BlockBodies : ~InBody(a, b)
    /\ (Executes /\ Len(callStack) > 0) => globals' = globals
    /\ (ast = Src_Shadow /\ ~faulted' /\ ~isRunning')
         => output' = << <<"2", " ", "1">> >>

\* C12: no STORE_GLOBAL lies inside a block body of the compiled code, no
\* instruction executed while a closure call is active changes the global
\* bindings, and x = 1 / f = [ x = 2  x ] / print(f(), x) prints "2 1".
C12_BlocksNeverWriteGlobals == [][C12Step]_vars

\* Inside the block of f, x = 2 has just stored 2 to a local while the
\* global x still holds 1.
C12_Witness ==
    /\ ast = Src_Shadow /\ Len(callStack) > 0
    /\ ip >= 2 /\ CodeAt(ip - 2) = STORE_LOCAL
    /\ SlotAt(envs[env].values, CodeAt(ip - 1)) = IntV(2)
    /\ globals[Name_x] = IntV(1)

\* --------------------------------------------------------------- C13
C13Step ==
    /\ (pc # "source" /\ firstRun' = firstRun /\ ~(Executes /\ OpAtIp = STORE_GLOBAL))
         => globals' = globals
    /\ (Executes /\ OpAtIp = STORE_GLOBAL)
         => LET name == PoolName(CodeAt(ip + 1)) IN
            /\ DOMAIN globals' = DOMAIN globals \cup {name}
            /\ \A n \in DOMAIN globals \ {name} : globals'[n] = globals[n]

\* C13: from the construction of the VM on, the global bindings change only
\* at STORE_GLOBAL steps, and such a step changes no binding but the one it
\* names; every other instruction, the calls of print, to_s and to_n
\* included, leaves them as they are.
C13_OnlyStoreGlobalWritesGlobals == [][C13Step]_vars

\* A call of print has executed while the program's own globals x and y are
\* bound beside the three natives.
C13_Witness ==
    /\ Len(output) > 0
    /\ {Name_x, Name_y, Name_print, Name_to_n, Name_to_s} \subseteq DOMAIN globals

\* --------------------------------------------------------------- C14
\* The block bodies around address a, and among them the one reached from
\* the innermost by h parent links of the static scope chain (none when the
\* chain ends before).
BodiesAround(a) == {b \in BlockBodies : InBody(a, b)}

StaticTarget(a, h) ==
    {b \in BodiesAround(a) :
        Cardinality({d \in BodiesAround(a) : d.entry > b.entry}) = h}

IsUpvalueOp(op) == op \in {LOAD_UPVALUE, STORE_UPVALUE}

C14Step ==
    /\ \A a \in AddressesOf(LOAD_UPVALUE) \cup AddressesOf(STORE_UPVALUE) :
         \E b \in StaticTarget(a, At(code, a + 2)) :
            b.localsCount >= At(code, a + 1) + 1
    /\ (Executes /\ IsUpvalueOp(OpAtIp))
         => LET t == Walk(envs, env, CodeAt(ip + 2)) IN
            /\ t > 0
            /\ \E b \in StaticTarget(ip, CodeAt(ip + 2)) : envBlock[t] = b.entry
            /\ Len(envs[t].values) >= CodeAt(ip + 1) + 1
            /\ (Faults => outcome'.msg = "Stack Overflow")

\* C14: for every LOAD_UPVALUE/STORE_UPVALUE i,h of the compiled code, h
\* parent links up the static scope chain reach a block (not the root scope)
\* with at least i+1 locals; at run time h parent links from the active
\* environment reach an environment that is an activation of that block and
\* has a slot i, so the upvalue access does not fail.
C14_UpvaluesResolve == [][C14Step]_vars

\* An upvalue two blocks out is about to be loaded: g inside the else block
\* of g inside f.
C14_Witness ==
    /\ isRunning /\ OpAtIp = LOAD_UPVALUE /\ CodeAt(ip + 2) = 2
    /\ Len(callStack) >= 1 /\ Walk(envs, env, 2) > 1

\* --------------------------------------------------------------- C15
\* A scope chain is a sequence of sequences of names, the root scope first;
\* the root scope holds no name.
VisibleIn(sc, name) == \E i \in 1..Len(sc) : LastIndexOf(sc[i], name) # -1

\* The chain after an assignment to name has been resolved in it: inside a
\* block a name that is not visible becomes a new local of the innermost
\* scope.
Declared(sc, name) ==
    IF VisibleIn(sc, name) \/ Len(sc) = 1 THEN sc
    ELSE [sc EXCEPT ![Len(sc)] = Append(@, name)]

\* The binding a name denotes in a chain.
BindingOf(kind, sc, name) ==
    LET n == Len(sc)
        outs == {i \in 1..(n - 1) : LastIndexOf(sc[i], name) # -1}
        o == CHOOSE i \in outs : \A j \in outs : j <= i
    IN  IF LastIndexOf(sc[n], name) # -1
        THEN [kind |-> kind, where |-> "local", idx |-> LastIndexOf(sc[n], name),
              hops |-> 0, name |-> <<>>]
        ELSE IF outs # {}
        THEN [kind |-> kind, where |-> "upvalue", idx |-> LastIndexOf(sc[o], name),
              hops |-> n - o, name |-> <<>>]
        ELSE [kind |-> kind, where |-> "global", idx |-> -1, hops |-> 0,
              name |-> name]

RECURSIVE AccessesOf(_, _), AccessesOfAll(_, _, _)
\* The loads and stores expected of the variables under node, in the order
\* of emission, with the chain after node: an assignment of a block literal
\* resolves (and declares) its target before the literal, every other
\* assignment after its right-hand side.  [sc, acc]
AccessesOf(node, sc) ==
    CASE node.type = "Var" ->
           [sc |-> sc, acc |-> <<BindingOf("load", sc, node.name)>>]
      [] node.type = "Assign" ->
           IF node.expr.type = "Block"
           THEN LET sc1 == Declared(sc, node.name)
                    r == AccessesOf(node.expr, sc1)
                IN  [sc |-> r.sc,
                     acc |-> r.acc \o <<BindingOf("store", sc1, node.name)>>]
           ELSE LET r == AccessesOf(node.expr, sc)
                    sc1 == Declared(r.sc, node.name)
                IN  [sc |-> sc1,
                     acc |-> r.acc \o <<BindingOf("store", sc1, node.name)>>]
      [] node.type = "BinOp" -> AccessesOfAll(<<node.left, node.right>>, 1, sc)
      [] node.type = "If" ->
           AccessesOfAll(<<node.condition, node.thenBranch, node.elseBranch>>, 1, sc)
      [] node.type = "Block" ->
           [sc |-> sc,
            acc |-> AccessesOfAll(node.body, 1, Append(sc, node.params)).acc]
      [] node.type = "Call" -> AccessesOfAll(<<node.block>> \o node.args, 1, sc)
      [] OTHER -> [sc |-> sc, acc |-> <<>>]

AccessesOfAll(nodes, i, sc) ==
    IF i > Len(nodes) THEN [sc |-> sc, acc |-> <<>>]
    ELSE LET r == AccessesOf(nodes[i], sc)
             rest == AccessesOfAll(nodes, i + 1, r.sc)
         IN  [sc |-> rest.sc, acc |-> r.acc \o rest.acc]

\* The loads and stores of the compiled code, in code order.
EmittedAccesses ==
    LET ops == disassemble(code)
        isAccess(e) == e.op \in {LOAD_LOCAL, STORE_LOCAL, LOAD_GLOBAL, STORE_GLOBAL,
                                  LOAD_UPVALUE, STORE_UPVALUE}
        sel == SelectSeq(ops, isAccess)
        access(e) ==
            [kind |-> IF e.op \in {LOAD_LOCAL, LOAD_GLOBAL, LOAD_UPVALUE}
                      THEN "load" ELSE "store",
             where |-> IF e.op \in {LOAD_LOCAL, STORE_LOCAL} THEN "local"
                       ELSE IF e.op \in {LOAD_UPVALUE, STORE_UPVALUE} THEN "upvalue"
                       ELSE "global",
             idx |-> IF e.op \in {LOAD_GLOBAL, STORE_GLOBAL} THEN -1
                     ELSE At(code, e.ip + 1),
             hops |-> IF e.op \in {LOAD_UPVALUE, STORE_UPVALUE}
                      THEN At(code, e.ip + 2) ELSE 0,
             name |-> IF e.op \in {LOAD_GLOBAL, STORE_GLOBAL}
                      THEN PoolName(At(code, e.ip + 1)) ELSE <<>>]
    IN  [k \in 1..Len(sel) |-> access(sel[k])]

\* C15: the loads and stores of the compiled code are those of a resolution
\* in which name = [block literal] binds name before the literal's body and
\* every other assignment binds it after its right-hand side; and a block
\* that names itself inside another block runs its recursion to the end
\* (f(N) of the nested g prints 0).
C15_BlockAssignBindsNameFirst ==
    pc \in {"idle", "run"} =>
       /\ EmittedAccesses = AccessesOfAll(ast, 1, << <<>> >>).acc
       /\ \A N \in 0..1 :
            (ast = Src_InnerRec(N) /\ ~isRunning /\ ~faulted) => output = << <<"0">> >>
       /\ (ast = Src_ShadowRhs /\ ~isRunning /\ ~faulted)
            => output = << <<"6", " ", "5">> >>

\* The nested recursion through g has run one level deep and finished, and
\* the program has printed its result.
C15_Witness ==
    /\ ast = Src_InnerRec(1) /\ pc = "idle" /\ ~isRunning /\ ~faulted
    /\ output = << <<"0">> >> /\ Len(envs) >= 6

\* ---------------------------------------------------------------- C16
\* The run of a source text is over: it was rejected by the tokenizer or the
\* parser, or it was compiled and run() has returned or thrown.
RunOver == pc = "rejected" \/ (pc = "idle" /\ ~isRunning)

\* C16: the source of scenario 2, with the recursive call written fact(n-1),
\* is tokenized, parsed, compiled and run without an Error, and when the run
\* is over the print sink holds exactly one line, 120.
C16_Scenario2Prints120 ==
    sourceText = Text_Scenario2 =>
        /\ pc # "rejected"
        /\ outcome.kind # "threw"
        /\ RunOver => output = << <<"1", "2", "0">> >>

\* ---------------------------------------------------------------- C17
\* a-1 as the parser is said to read it: a minus 1, one expression.
AMinusOne(line) ==
    BinOpNode(Op("-"), VarNode(Name_a, line), IntNode(1, line), line)

\* The five contexts of an expression, each with a-1 in it, and the
\* statements each text stands for when a-1 is one BinOp.
MinusContexts ==
    { [text |-> Text_MinusTop,
       ast  |-> << AssignNode(Name_a, IntNode(5, 1), 1), AMinusOne(2) >>],
      [text |-> Text_MinusRhs,
       ast  |-> << AssignNode(Name_a, IntNode(5, 1), 1),
                   AssignNode(Name_x, AMinusOne(2), 2),
                   PrintCall(<<VarNode(Name_x, 3)>>, 3) >>],
      [text |-> Text_MinusParen,
       ast  |-> << AssignNode(Name_a, IntNode(5, 1), 1),
                   AssignNode(Name_x, AMinusOne(2), 2) >>],
      [text |-> Text_MinusArg,
       ast  |-> << AssignNode(Name_a, IntNode(5, 1), 1),
                   PrintCall(<<AMinusOne(2)>>, 2) >>],
      [text |-> Text_MinusBody,
       ast  |-> << AssignNode(Name_f, BlockNode(<<Name_a>>, <<AMinusOne(1)>>, 1), 1),
                   PrintCall(<<CallNode(VarNode(Name_f, 2), <<IntNode(5, 2)>>, 2)>>, 2) >>] }

\* The tokens of a-1 in a token list: ID a directly followed by NUMBER -1.
HasIdThenNegativeNumber(ts) ==
    \E k \in 1..(Len(ts) - 1) :
        /\ ts[k].type = "ID" /\ ts[k].value = Name_a
        /\ ts[k + 1].type = "NUMBER" /\ ts[k + 1].value = <<"-", "1">>
        /\ ts[k + 1].line = ts[k].line

\* C17: a-1 is tokenized as ID a, NUMBER -1, and in each of the five
\* contexts the parser accepts the text and reads a-1 as the one expression
\* BinOp(a, -, 1).
C17_MinusAfterIdentifierIsBinOp ==
    \A c \in MinusContexts :
        sourceText = c.text =>
            /\ tokenize(sourceText).err = "none"
            /\ HasIdThenNegativeNumber(tokenize(sourceText).tokens)
            /\ pc # "rejected"
            /\ pc # "text" => ast = c.ast

\* ---------------------------------------------------------------- C18
RECURSIVE LinesOf(_), LinesOfAll(_)
\* The lines the nodes of a syntax tree carry (ASTNode.line).
LinesOf(node) ==
    {node.line} \cup
    CASE node.type = "Assign" -> LinesOf(node.expr)
      [] node.type = "Block" -> LinesOfAll(node.body)
      [] node.type = "Call" -> LinesOf(node.block) \cup LinesOfAll(node.args)
      [] node.type = "BinOp" -> LinesOf(node.left) \cup LinesOf(node.right)
      [] node.type = "If" ->
            LinesOf(node.condition) \cup LinesOf(node.thenBranch)
                \cup LinesOf(node.elseBranch)
      [] OTHER -> {}

LinesOfAll(nodes) ==
    IF nodes = <<>> THEN {} ELSE LinesOf(Head(nodes)) \cup LinesOfAll(Tail(nodes))

\* The line numbers of the source: those the tokenizer counts in the text,
\* or those of the statements when the statements are given parsed.
SourceLines ==
    IF sourceText # <<>> THEN 1..(Newlines(sourceText) + 1) ELSE LinesOfAll(ast)

\* C18: the program the compiler produces, the one of the empty source
\* included, has one sourceMap entry for each slot of code, and every entry
\* is a positive line number of the source.
C18_SourceMapTotal ==
    pc \in {"idle", "run"} =>
        /\ Len(sourceMap) = Len(code)
        /\ \A a \in 1..Len(sourceMap) :
              sourceMap[a] > 0 /\ sourceMap[a] \in SourceLines

\* ---------------------------------------------------------------- C19
\* The slots of code a decoded record takes: its opcode and its operands.
SlotsOf(instr) == instr.ip..(instr.ip + OperandCount(instr.op))

RECURSIVE DecodedLength(_)
\* The sum of 1 + operand count over a sequence of decoded records.
DecodedLength(instrs) ==
    IF instrs = <<>> THEN 0
    ELSE 1 + OperandCount(Head(instrs).op) + DecodedLength(Tail(instrs))

\* The addresses at which disassemble finds an opcode.
DecodedStarts ==
    LET instrs == disassemble(code) IN {instrs[k].ip : k \in 1..Len(instrs)}

\* The decoder takes every slot of the code exactly once, and the VM is
\* about to execute only what the decoder has read as an opcode.
C19Decoded ==
    pc \in {"idle", "run"} =>
        LET instrs == disassemble(code) IN
        /\ \A a \in 0..(Len(code) - 1) :
              Cardinality({k \in 1..Len(instrs) : a \in SlotsOf(instrs[k])}) = 1
        /\ \A k \in 1..Len(instrs) : SlotsOf(instrs[k]) \subseteq 0..(Len(code) - 1)
        /\ DecodedLength(instrs) = Len(code)
        /\ (isRunning /\ ip < Len(code)) => ip \in DecodedStarts

\* The VM takes as many operands as the decoder: an instruction that does
\* not fault leaves ip after the operands the decoder reads, or at its jump
\* target, closure entry or return address, and a call that pushes a frame
\* returns to the address after the operands the decoder reads.
C19Step ==
    (Executes /\ ~Faults) =>
        /\ ip' \in {ip + 1 + OperandCount(OpAtIp)} \cup TransferTargets
        /\ Len(callStack') > Len(callStack)
             => TopFrame(callStack').returnAddr = ip + 1 + OperandCount(OpAtIp)
        /\ (OpAtIp \notin {JUMP, JUMP_IF_F, RETURN, HALT} /\ ~CallsClosure)
             => ip' = ip + 1 + OperandCount(OpAtIp)
        /\ (isRunning' /\ ip' < Len(code)) => ip' \in DecodedStarts

\* C19: decoding a compiled program from address 0 takes every slot of code
\* exactly once, as an opcode or as an operand of one record; the sum of
\* 1 + operand count over the records is code.length; and each opcode takes
\* as many operands in the VM as in the disassembler.
C19_DisassemblyCoversCode == []C19Decoded /\ [][C19Step]_vars

\* A program with a three-operand MAKE_BLOCK and a two-operand upvalue
\* access has been decoded and has run to its HALT.
C19_Witness ==
    /\ pc = "idle" /\ ~isRunning /\ ~faulted
    /\ ip = Len(code)
    /\ \E k \in 1..Len(disassemble(code)) : disassemble(code)[k].op = MAKE_BLOCK
    /\ \E k \in 1..Len(disassemble(code)) : disassemble(code)[k].op = LOAD_UPVALUE
    /\ Len(disassemble(code)) < Len(code)

InnermostEntry(a) ==
    LET entries == {b.entry : b \in BodiesAround(a)} IN
    IF entries = {} THEN -1 ELSE CHOOSE e \in entries : \A d \in entries : d <= e

\* The entry addresses of the blocks whose activations are running: the one
\* of the active environment and those of the frames of the call stack.
RunningEntries ==
    {envBlock[env]} \cup {envBlock[callStack[k].env] : k \in 1..Len(callStack)}

\* The VM is about to execute the instruction at ip.
AboutToExecute == pc \in {"idle", "run"} /\ isRunning /\ ip < Len(code)

\* C21 as stated: ip lies in the address range of a block only while an
\* activation of a closure with that block's entry address is running.
C21_BodyOnlyInOwnActivation ==
    AboutToExecute =>
        \A b \in BlockBodies : InBody(ip, b) => b.entry \in RunningEntries

C21Step ==
    (Executes /\ ~Faults /\ isRunning' /\ InnermostEntry(ip') # InnermostEntry(ip))
        => (CallsClosure \/ OpAtIp = RETURN)

\* C21, amended: the innermost block body around ip is the body of the
\* running activation (none at top level), and only the call of a closure
\* and RETURN take ip from one body to another: sequential execution, JUMP
\* and JUMP_IF_F never enter a body. The range of an enclosing block may
\* hold ip after that block's activation has returned, while a closure it
\* made is running.
C21_BodyOnlyByCall ==
    [](AboutToExecute => InnermostEntry(ip) = envBlock[env]) /\ [][C21Step]_vars

\* The closure made by add_n runs after add_n has returned: ip is in two
\* nested bodies and only the inner block has an activation.
C21_Witness ==
    /\ AboutToExecute /\ ast = Src_Curry
    /\ Cardinality(BodiesAround(ip)) = 2
    /\ envBlock[env] = InnermostEntry(ip)
    /\ Cardinality(RunningEntries \ {-1}) = 1

\* ---------------------------------------------------------------- C22
\* The value of a op b for integers a >= 0 and b > 0.
ChainValue(op, a, b) ==
    CASE op = "+" -> a + b
      [] op = "-" -> a - b
      [] op = "*" -> a * b
      [] op = "/" -> a \div b
      [] op = "%" -> a % b
      [] op = "==" -> IF a = b THEN 1 ELSE 0
      [] op = "<" -> IF a < b THEN 1 ELSE 0
      [] op = ">" -> IF a > b THEN 1 ELSE 0

\* print((7 op1 3) op2 2) as a syntax tree.
LeftChain(op1, op2) ==
    << PrintCall(<< BinOpNode(Op(op2),
                      BinOpNode(Op(op1), IntNode(7, 1), IntNode(3, 1), 1),
                      IntNode(2, 1), 1) >>, 1) >>

\* The run of the program has come to its end.
Finished == pc = "idle" /\ ~isRunning

\* C22: a chain of binary operators is parsed as one left-nested BinOp, for
\* every pair of operators, and the compiled code prints the value of
\* (7 op1 3) op2 2 without a fault; a+b*c prints (7 + 3) * 2 = 20.
C22_BinaryChainsLeftAssociate ==
    /\ ~(pc = "rejected" /\ sourceText # <<>>
           /\ \E op1 \in ChainOps, op2 \in ChainOps : sourceText = Text_Chain(op1, op2))
    /\ \A op1 \in ChainOps, op2 \in ChainOps :
         (sourceText = Text_Chain(op1, op2) /\ pc # "text") =>
            /\ ast = LeftChain(op1, op2)
            /\ ~faulted
            /\ Finished =>
                 output = << IntToStr(ChainValue(op2, ChainValue(op1, 7, 3), 2)) >>
    /\ (sourceText = Text_ChainOfNames /\ pc # "text") =>
         /\ pc # "rejected" /\ ~faulted
         /\ Finished => output = << <<"2", "0">> >>

\* print(7 - 3 / 2) has printed (7 - 3) / 2 = 2.
C22_Witness ==
    /\ sourceText = Text_Chain("-", "/") /\ Finished
    /\ output = << <<"2">> >>

\* ---------------------------------------------------------------- C23
\* The Error of the instruction executed by this step has message msg.
FaultsWith(msg) == Faults /\ outcome'.kind = "threw" /\ outcome'.msg = msg

\* The instructions that only push, and those that pop or read the top of
\* the stack before anything else.
PushingOps == {PUSH_CONST, LOAD_LOCAL, MAKE_BLOCK}

TopReadingOps ==
    {POP, BINARY_OP, JUMP_IF_F, CALL, TAIL_CALL, CALL_IF_CLOSURE,
     TAIL_CALL_IF_CLOSURE, STORE_LOCAL, STORE_UPVALUE, STORE_GLOBAL}

C23Step ==
    /\ (Executes /\ OpAtIp \in PushingOps /\ Len(stack) = STACK_SIZE)
         => (FaultsWith("Stack Overflow") /\ stack' = stack)
    /\ (Executes /\ OpAtIp \in TopReadingOps /\ Len(stack) = 0)
         => (FaultsWith("Stack Underflow") /\ stack' = stack
               /\ envs' = envs /\ globals' = globals)

\* C23: the height of the operand stack stays within 0..STACK_SIZE; a push
\* onto a full stack faults with Stack Overflow; and an instruction that
\* pops or reads the top of an empty stack, the three stores included,
\* faults with Stack Underflow and stores nothing.
C23_StackBoundsAreFatal ==
    [](Len(stack) \in 0..STACK_SIZE) /\ [][C23Step]_vars

\* ---------------------------------------------------------------- C24
\* VM.getEnv: the entry `<Scope:depth>` of the display environment, a copy
\* of the values of the environment depth parent links above the active
\* one; <<>> where the display has no such entry.
getEnvScope(depth) ==
    LET e == Walk(envs, env, depth) IN
    IF e > 0 /\ Len(envs[e].values) > 0 THEN envs[e].values ELSE <<>>

\* C24: the environment made by the call of a closure has exactly
\* closure.localsCount slots, whatever the number of arguments: arguments
\* beyond that are not stored, and getEnv does not show them.
C24_EnvHasLocalsCountSlots ==
    [][CallsClosure =>
         /\ Len(envs'[env'].values) = CalleeAtIp.localsCount
         /\ Len(getEnvScope(0)') = CalleeAtIp.localsCount]_vars

\* ---------------------------------------------------------------- C25
\* C25: in the compiled code the operand of every JUMP and JUMP_IF_F is the
\* address of an opcode after the jump and before the end of the code, and
\* the entry address of every MAKE_BLOCK is the address of an opcode after
\* address 0 and before the MAKE_BLOCK: none is an operand slot, the
\* placeholder 0, or code.length.
C25_JumpTargetsAreOpcodes ==
    pc \in {"idle", "run"} =>
        LET starts == DecodedStarts IN
        /\ \A a \in AddressesOf(JUMP) \cup AddressesOf(JUMP_IF_F) :
              /\ At(code, a + 1) \in starts
              /\ a < At(code, a + 1) /\ At(code, a + 1) < Len(code)
        /\ \A a \in AddressesOf(MAKE_BLOCK) :
              /\ At(code, a + 2) \in starts
              /\ 0 < At(code, a + 2) /\ At(code, a + 2) < a

\* A compiled program with a conditional inside a block: both kinds of
\* jump and a MAKE_BLOCK are in the code.
C25_Witness ==
    /\ pc = "idle" /\ ip = 0
    /\ AddressesOf(JUMP_IF_F) # {} /\ AddressesOf(MAKE_BLOCK) # {}
    /\ \E a \in AddressesOf(JUMP_IF_F) : BodiesAround(a) # {}
    /\ Cardinality(AddressesOf(JUMP)) >= 2

\* ---------------------------------------------------------------- C26
IsIfCallOp(op) == op \in {CALL_IF_CLOSURE, TAIL_CALL_IF_CLOSURE}

\* The operand stack under its top value.
UnderTop(stk) == SubSeq(stk, 1, Len(stk) - 1)

C26Step ==
    (Executes /\ IsIfCallOp(OpAtIp) /\ Len(stack) > 0) =>
        LET val == TopOfStack IN
        CASE val.t = "Closure" ->
               /\ ~Faults
               /\ ip' = val.entryAddr /\ stack' = UnderTop(stack)
               /\ Len(envs') = Len(envs) + 1 /\ env' = Len(envs')
               /\ envs'[env'].parent = val.env
               /\ callStack' = IF OpAtIp = TAIL_CALL_IF_CLOSURE THEN callStack
                               ELSE Append(callStack, [returnAddr |-> ip + 1, env |-> env])
          [] val.t = "Native" ->
               /\ ~Faults
               /\ ip' = ip + 1 /\ callStack' = callStack /\ env' = env /\ envs' = envs
               /\ stack' = Append(UnderTop(stack), CallNative(Machine, val.name, <<>>).result)
               /\ output' = CallNative(Machine, val.name, <<>>).m.output
          [] val.t \in {"Int", "Str", "Nil", "NonFinite"} ->
               /\ ~Faults
               /\ ip' = ip + 1 /\ stack' = stack /\ callStack' = callStack
               /\ env' = env /\ envs' = envs /\ output' = output
          [] OTHER -> TRUE

\* C26: CALL_IF_CLOSURE and TAIL_CALL_IF_CLOSURE on a closure or a native
\* call it with no argument (the closure in a new environment under its
\* captured one, with a frame unless it is the tail variant; the native in
\* place, its result replacing it); on an Int, a Str or null they change
\* nothing but ip, which advances by one.
C26_CallIfClosure == [][C26Step]_vars

\* The native print, the value of an unbracketed branch, has been called
\* with no argument: it has printed an empty line and left null.
C26_Witness ==
    /\ ast = Src_IfValues /\ AboutToExecute /\ ~faulted
    /\ ip >= 1 /\ IsIfCallOp(CodeAt(ip - 1))
    /\ Len(output) = 5 /\ output[5] = <<>>
    /\ TopOfStack = NilV

\* ---------------------------------------------------------------- C27
C27Step ==
    (Executes /\ OpAtIp = RETURN /\ ~Faults /\ Len(acts) > 0) =>
        LET a == acts[Len(acts)] IN
        /\ ip' = a.at + 1 + OperandCount(CodeAt(a.at))
        /\ env' = a.env
        /\ Len(callStack') = a.depth
        /\ envs' = envs

\* C27: the RETURN that ends the activation of a non-tail call of a closure,
\* or the last activation of the chain of tail calls made from it, leaves
\* ip at the address after the call instruction, the active environment the
\* one that was active at the call (the same object, with what the callee
\* wrote to it), and the call stack as deep as it was at the call; and
\* every frame of the call stack belongs to one such call.
C27_ReturnRestoresCaller ==
    [](Len(acts) = Len(callStack)) /\ [][C27Step]_vars

\* The block g, called from f, has added 1 to f's c twice through an
\* upvalue and returned: f goes on after the second call, in its own
\* environment, where c is 2.
C27_Witness ==
    /\ ast = Src_Counter /\ AboutToExecute /\ ~faulted
    /\ Len(callStack) = 1
    /\ ip >= 2 /\ CodeAt(ip - 2) = CALL
    /\ \E k \in 1..Len(envs[env].values) : envs[env].values[k] = IntV(2)

\* ---------------------------------------------------------------- C28
HostProvided == {Name_print, Name_to_s, Name_to_n}

\* C28: a LOAD_GLOBAL of a name that is neither host-provided nor bound by
\* an earlier STORE_GLOBAL faults with "Undefined variable" and pushes
\* nothing, whatever the name is.
C28_UnboundGlobalFaults ==
    [][(Executes /\ OpAtIp = LOAD_GLOBAL
          /\ PoolName(CodeAt(ip + 1)) \notin HostProvided
          /\ PoolName(CodeAt(ip + 1)) \notin DOMAIN globals)
         => (FaultsWith("Undefined variable") /\ stack' = stack)]_vars

\* The program that never binds valueOf or toString has printed both the
\* function found under valueOf and the result of calling toString.
C28_InheritedNameLoaded ==
    /\ sourceText = Text_InheritedNames
    /\ Name_valueOf \notin DOMAIN globals /\ Name_toString \notin DOMAIN globals
    /\ Len(output) = 2
    /\ output[1] = <<"<", "n", "a", "t", "i", "v", "e", ">">>

\* ---------------------------------------------------------------- C29
RECURSIVE OwnHolder(_, _, _)
\* The nearest Env of the parent chain of e that has a binding of key, 0
\* when there is none.
OwnHolder(h, e, key) ==
    IF e = 0 THEN 0
    ELSE IF key \in DOMAIN h[e].data THEN e
    ELSE OwnHolder(h, h[e].parent, key)

RECURSIVE RootOf(_, _)
\* The Env without a parent at the end of the parent chain of e.
RootOf(h, e) == IF h[e].parent = 0 THEN e ELSE RootOf(h, h[e].parent)

C29Step ==
    (pc = "env" /\ called'.op = "set") =>
        LET e == called'.env
            key == called'.key
            holder == OwnHolder(chain, e, key)
            written == IF holder # 0 THEN holder ELSE RootOf(chain, e)
        IN  /\ Len(chain') = Len(chain)
            /\ \A c \in 1..Len(chain) :
                 /\ chain'[c].parent = chain[c].parent
                 /\ chain'[c].data =
                      IF c = written THEN EnvSet(chain[c].data, key, called'.val)
                      ELSE chain[c].data
            /\ Env_get(chain', e, key) = [err |-> "none", val |-> called'.val]

\* C29: e.set(name, v) overwrites the binding of name in the nearest Env of
\* the parent chain of e that has one; when no Env of the chain has one it
\* makes the binding in the root of the chain, not in e; no other binding
\* changes, and e.get(name) is v afterwards.
C29_SetWritesHolderOrRoot == [][C29Step]_vars

\* ---------------------------------------------------------------- C30
C30Step ==
    /\ (pc = "text" /\ pc' = "rejected") => output' = output
    /\ Faults =>
         \/ output' = output
         \/ /\ IsCallOp(OpAtIp) /\ CalleeAtIp = NativeV(Name_print)
            /\ Len(output') = Len(output) + 1
            /\ SubSeq(output', 1, Len(output)) = output

\* C30: when run(code, onPrint) fails in tokenize, in the parser or in the
\* VM, the sink has received nothing but the lines of the calls of print
\* executed until then: the failing step adds no line of its own.
C30_RunWritesNoErrorToSink == [][C30Step]_vars

\* ---------------------------------------------------------------- C31
\* The operands the two operators are tried on.
C31Range == (0 - 9)..9

\* The integer q with q <= a/b < q + 1, and the integer t nearest to zero
\* with |a/b| - 1 < |t| <= |a/b| and the sign of a/b.
FloorQuotient(a, b) ==
    CHOOSE q \in (0 - 10)..10 :
        IF b > 0 THEN q * b <= a /\ a < (q + 1) * b
        ELSE q * b >= a /\ a > (q + 1) * b

TruncQuotient(a, b) ==
    CHOOSE t \in (0 - 10)..10 :
        LET r == a - b * t IN
        /\ (IF a >= 0 THEN r >= 0 ELSE r <= 0)
        /\ (IF r < 0 THEN 0 - r ELSE r) < (IF b < 0 THEN 0 - b ELSE b)

C31Pure ==
    \A a \in C31Range, b \in C31Range \ {0} :
        /\ BinaryFastPath(Op("/"), IntV(a), IntV(b))
              = [err |-> "none", val |-> IntV(FloorQuotient(a, b))]
        /\ applyBinary(Op("/"), IntV(a), IntV(b))
              = [err |-> "none", val |-> IntV(FloorQuotient(a, b))]
        /\ BinaryFastPath(Op("%"), IntV(a), IntV(b))
              = [err |-> "none", val |-> IntV(a - b * TruncQuotient(a, b))]
        /\ applyBinary(Op("%"), IntV(a), IntV(b))
              = [err |-> "none", val |-> IntV(a - b * TruncQuotient(a, b))]

C31Step ==
    (/\ Executes /\ OpAtIp = BINARY_OP /\ Len(stack) >= 2
     /\ PoolName(CodeAt(ip + 1)) \in {Op("/"), Op("%")}
     /\ stack[Len(stack)].t = "Int" /\ stack[Len(stack) - 1].t = "Int"
     /\ stack[Len(stack)].n # 0)
      => LET a == stack[Len(stack) - 1].n
             b == stack[Len(stack)].n
         IN  /\ ~Faults
             /\ stack' = Append(SubSeq(stack, 1, Len(stack) - 2),
                    IntV(IF PoolName(CodeAt(ip + 1)) = Op("/")
                         THEN FloorQuotient(a, b)
                         ELSE a - b * TruncQuotient(a, b)))

\* C31: for integers a and b, b # 0, of either sign, a / b is the quotient
\* rounded toward minus infinity and a % b is a - b * trunc(a / b), which
\* has the sign of a; the number branch of BINARY_OP and applyBinary both
\* compute them so, and a BINARY_OP executed on two such operands replaces
\* them by that value.
C31_DivFloorsRemTruncates == []C31Pure /\ [][C31Step]_vars

\* x = -7 / 2 has run to its end and print(x) has written -4.
C31_Witness ==
    /\ ast = Src_IntOp("/", 0 - 7, 2) /\ pc = "idle" /\ ~isRunning /\ ~faulted
    /\ output = << <<"-", "4">> >>

\* ---------------------------------------------------------------- C32
RECURSIVE InOrder(_)
\* The lines and the value of an expression made of numbers and calls of
\* print when the arguments of a call are evaluated from left to right, each
\* one to its end, and the call is made after the last of them.
InOrder(node) ==
    IF node.type = "Int" THEN [lines |-> <<>>, val |-> IntV(node.value)]
    ELSE LET n == Len(node.args)
             r == [k \in 1..n |-> InOrder(node.args[k])]
             RECURSIVE before(_)
             before(k) == IF k = 0 THEN <<>> ELSE before(k - 1) \o r[k].lines
             line == Join([k \in 1..n |-> PrintArg(r[k].val)], <<" ">>)
         IN  [lines |-> Append(before(n), line),
              val |-> IF n = 0 THEN NilV ELSE r[n].val]

IsPrefix(s, t) == Len(s) <= Len(t) /\ SubSeq(t, 1, Len(s)) = s

\* The lines of Src_CalleeFirst: the callee f(), the arguments, the body.
CalleeFirstLines == << <<"c">>, <<"x">>, <<"y">>, <<"b">> >>

ExpectedLines ==
    IF ast = Src_CalleeFirst THEN CalleeFirstLines ELSE InOrder(ast[1]).lines

\* C32: the callee expression of a call is evaluated first, then the
\* arguments from left to right, each to its end with the prints of the
\* calls nested in it, and the call is made last: at every moment the sink
\* holds the first lines of that order, and all of them when the program has
\* ended.
C32_ArgumentsLeftToRight ==
    (ast \in NestedPrints \cup {Src_CalleeFirst} /\ pc \in {"idle", "run"} /\ ~faulted)
        => /\ IsPrefix(output, ExpectedLines)
           /\ (~isRunning => output = ExpectedLines)

\* print(print(1, 2), print(4, 3)) has ended: the sink has the lines of the
\* first argument, of the second, and of the call.
C32_Witness ==
    /\ ast = Src_NestedPrints(PrintCall(<<IntNode(1, 1), IntNode(2, 1)>>, 1),
                              PrintCall(<<IntNode(4, 1), IntNode(3, 1)>>, 1))
    /\ pc = "idle" /\ ~isRunning /\ ~faulted
    /\ output = << <<"1", " ", "2">>, <<"4", " ", "3">>, <<"2", " ", "3">> >>

\* ---------------------------------------------------------------- C33
\* The contexts of an expression named for 1-1: a statement at top level,
\* the right-hand side of an assignment, the body of a block.
DigitsContexts == {Text_DigitsTop, Text_DigitsRhs, Text_DigitsBody}

\* The tokens of 1-1 in a token list: NUMBER 1 directly followed by
\* NUMBER -1.
HasNumberThenNegativeNumber(ts) ==
    \E k \in 1..(Len(ts) - 1) :
        /\ ts[k].type = "NUMBER" /\ ts[k].value = <<"1">>
        /\ ts[k + 1].type = "NUMBER" /\ ts[k + 1].value = <<"-", "1">>

\* C33: 1-1 is tokenized as NUMBER 1, NUMBER -1, and the parser rejects the
\* text with an Error in each context: at top level, on the right-hand side
\* of an assignment and in the body of a block.
C33_DigitsMinusDigitsRejected ==
    \A text \in DigitsContexts :
        sourceText = text =>
            /\ tokenize(sourceText).err = "none"
            /\ HasNumberThenNegativeNumber(tokenize(sourceText).tokens)
            /\ pc \in {"text", "rejected"}

\* What the parser does with 1-1: it is rejected as a call argument, and
\* read as the two expressions 1 and -1 in the three contexts.
C33_AsParsed ==
    /\ sourceText = Text_DigitsArg =>
          /\ HasNumberThenNegativeNumber(tokenize(sourceText).tokens)
          /\ pc \in {"text", "rejected"}
          /\ pc = "rejected" => outcome = Threw("Expected RPAREN", <<>>)
    /\ (sourceText = Text_DigitsTop /\ pc # "text") =>
          ast = << IntNode(1, 1), IntNode(0 - 1, 1) >>
    /\ (sourceText = Text_DigitsRhs /\ pc # "text") =>
          ast = << AssignNode(Name_x, IntNode(1, 1), 1), IntNode(0 - 1, 1) >>
    /\ (sourceText = Text_DigitsBody /\ pc # "text") =>
          ast = << AssignNode(Name_f,
                     BlockNode(<<>>, <<IntNode(1, 1), IntNode(0 - 1, 1)>>, 1), 1) >>

\* ---------------------------------------------------------------- C34
TailOps == {TAIL_CALL, TAIL_CALL_IF_CLOSURE}

\* The address is in top-level code: in the body of no block.
InTopLevel(a) == BodiesAround(a) = {}

\* The tail calls of the code are all in the body of a block, and the call
\* stack is empty exactly when ip is in top-level code.
C34Depth ==
    pc \in {"idle", "run"} =>
        /\ \A op \in TailOps : \A a \in AddressesOf(op) : ~InTopLevel(a)
        /\ (callStack = <<>>) <=> InTopLevel(ip)

C34Step ==
    (Executes /\ OpAtIp = RETURN) =>
        /\ callStack # <<>>
        /\ ~FaultsWith("Stack underflow: return outside of call")

\* C34: RETURN is never executed with an empty call stack: the compiler
\* emits TAIL_CALL and TAIL_CALL_IF_CLOSURE only in the bodies of blocks, a
\* body runs only with a frame on the call stack, and the call stack is
\* empty exactly when ip is in top-level code.
C34_ReturnHasFrame == []C34Depth /\ [][C34Step]_vars

\* The body entered by the tail call of a body is running on the one frame of
\* the call made from top-level code.
C34_Witness ==
    /\ pc \in {"idle", "run"} /\ isRunning /\ ~faulted
    /\ Len(callStack) = 1 /\ Len(acts) = 1 /\ acts[1].tail
    /\ ~InTopLevel(ip) /\ InTopLevel(callStack[1].returnAddr)

\* ---------------------------------------------------------------- C35
\* The environments that are as they were before the step, all but e.
OthersKept(e) == \A o \in 1..Len(envs) : o # e => envs'[o] = envs[o]

C35Step ==
    /\ (CallsClosure /\ ~Faults) =>
          /\ Len(envs') = Len(envs) + 1
          /\ env' = Len(envs')
          /\ envs'[env'].parent = CalleeAtIp.env
          /\ OthersKept(0)
    /\ (Executes /\ OpAtIp = MAKE_BLOCK /\ ~Faults) =>
          /\ stack'[Len(stack')].t = "Closure"
          /\ stack'[Len(stack')].env = env
          /\ envs' = envs
    /\ (Executes /\ OpAtIp = STORE_LOCAL /\ ~Faults) =>
          /\ OthersKept(env)
          /\ SlotAt(envs'[env].values, CodeAt(ip + 1)) = TopOfStack
    /\ (Executes /\ OpAtIp = STORE_UPVALUE /\ ~Faults) =>
          LET t == Walk(envs, env, CodeAt(ip + 2)) IN
          /\ OthersKept(t)
          /\ SlotAt(envs'[t].values, CodeAt(ip + 1)) = TopOfStack
          /\ \A o \in 1..Len(envs) : (o # t /\ envBlock[o] = envBlock[t]) => envs'[o] = envs[o]

\* The lines of the three programs when every activation has its own
\* environment and the closures of one activation share it.
C35Lines ==
    /\ ast = Src_TwoCounters => output = << <<"1", " ", "2", " ", "1">> >>
    /\ ast = Src_TwoAdders => output = << <<"6", " ", "1", "1", " ", "6">> >>
    /\ ast = Src_SharedEnv => output = << <<"2", " ", "2">> >>

\* C35: a call of a closure makes a new environment and changes no other, a
\* store to a local or to an upvalue changes one environment and no other
\* activation of the same block, and a closure captures the environment
\* active when it is made, the object itself: two activations of one block
\* keep their own locals, and what one closure of an activation stores the
\* other closures of that activation and the activation itself load.
C35_FreshEnvSharedCapture ==
    /\ []((pc = "idle" /\ ~isRunning /\ ~faulted) => C35Lines)
    /\ [][C35Step]_vars

\* The second call of a() in Src_TwoCounters stores 2 to the c of the first
\* activation of f while the c of the second activation is 0.
C35_Witness ==
    /\ ast = Src_TwoCounters /\ AboutToExecute /\ ~faulted
    /\ OpAtIp = STORE_UPVALUE /\ TopOfStack = IntV(2)
    /\ \E e1, e2 \in 1..Len(envs) :
          /\ e1 # e2 /\ envBlock[e1] = envBlock[e2]
          /\ Walk(envs, env, CodeAt(ip + 2)) = e1
          /\ SlotAt(envs[e1].values, CodeAt(ip + 1)) = IntV(1)
          /\ SlotAt(envs[e2].values, CodeAt(ip + 1)) = IntV(0)

\* ---------------------------------------------------------------- C36
\* The VM made second has been driven by step() alone until isHalted(), after
\* the VM made first was driven by one run() that did not fault.
SteppedToHalt ==
    /\ firstRun # NoRun /\ ~firstRun.faulted
    /\ driven = "step" /\ pc = "idle" /\ ~isRunning

C36Step ==
    (Executes /\ ~Faults /\ ~isRunning') => (OpAtIp = HALT /\ ip = Len(code) - 1)

\* C36: for a program that does not fault, a new VM driven by step() until
\* isHalted() ends as a new VM driven by one run(): the same lines printed,
\* the same operand stack, the same global bindings and the same ip, and
\* both stop by executing the HALT in the last slot of the code.
C36_StepsEqualRun ==
    /\ [](SteppedToHalt =>
            /\ ~faulted
            /\ output = firstRun.output
            /\ stack = firstRun.stack
            /\ globals = firstRun.globals
            /\ ip = firstRun.ip
            /\ ip = Len(code))
    /\ [][C36Step]_vars

\* Src_TwoCounters has been run by run() and then stepped to its HALT on a
\* second VM: both printed 1 2 1 and bound a and b to closures.
C36_Witness ==
    /\ SteppedToHalt /\ ast = Src_TwoCounters
    /\ output = << <<"1", " ", "2", " ", "1">> >>
    /\ globals[Name_a].t = "Closure" /\ firstRun.globals[Name_a] = globals[Name_a]

\* ---------------------------------------------------------------- C37
\* isHalted() of a VM that exists.
Halted == pc \in {"idle", "run"} /\ ~isRunning

\* The VM has executed HALT: it is halted past the last slot of the code.
HaltedByHALT == Halted /\ ip = Len(code)

\* The step is a call on the VM that is there, not the making of a new one.
OnSameVM == firstRun' = firstRun

C37Step ==
    (Halted /\ OnSameVM) =>
        /\ ~isRunning'
        /\ <<ip, stack, callStack, envs, env, globals, made, output>>'
              = <<ip, stack, callStack, envs, env, globals, made, output>>
        /\ (pc = "idle" /\ pc' = "idle") => outcome' = Returned(NilV)
        /\ (pc = "run" /\ pc' = "idle") =>
              outcome' = Returned(IF stack = <<>> THEN NilV ELSE stack[Len(stack)])

\* C37: a halted VM stays halted: step() returns null and run() executes no
\* instruction, both leave ip, the operand stack, the call stack, the
\* environments and the globals as they are, and run() returns the value on
\* top of the stack, which is the one that was there at HALT.
C37_HaltedIsAbsorbing == [][C37Step]_vars

\* On a VM halted by HALT with a value on its stack, step() has returned
\* null and run() has then been entered.
C37_Witness ==
    /\ HaltedByHALT /\ ~faulted /\ pc = "run" /\ driven = "mixed"
    /\ ast = Src_Curry /\ stack # <<>> /\ outcome = Returned(NilV)
    /\ output = << <<"1", "5">> >>
=============================================================================
